---- MODULE Spec2Model ----
(***************************************************************************)
(* A model of lambda_deploy_tool: the remote operation gateway             *)
(* (aws/__init__.py), the resource provisioners built on it (aws/*.py)     *)
(* and the deployment orchestrator (deployer.py, container_deployer.py).   *)
(*                                                                         *)
(* Three specifications share the variables:                               *)
(*   SpecGateway    one direct call of a gateway method by a client;       *)
(*   SpecProvision  a client that invokes provisioner operations in turn;  *)
(*   SpecDeploy     the orchestrator: construction, then deploy().         *)
(* A gateway call is one step: safe_call_with_retry is an operator applied *)
(* to the outcomes the remote API gives to the successive attempts.        *)
(***************************************************************************)
EXTENDS Integers, Sequences, FiniteSets, TLC

VARIABLES
    config,     \* the DeployConfig / ContainerDeployConfig aggregate
    mgrs,       \* the service managers: constructed?, their dry_run copy
    remote,     \* the remote account: resources that exist, function status
    proc,       \* the provisioner operation in progress and its position
    orch,       \* the orchestrator: phase, step list, position, error
    hist,       \* what the client's invocations returned or raised
    log,        \* every remote request, sleep and step event, in order
    lastCall    \* the most recent gateway call, with its attempts and delays

vars == <<config, mgrs, remote, proc, orch, hist, log, lastCall>>

----------------------------------------------------------------------------
(* Bounds of the model.                                                    *)

\* The largest max_attempts a client passes to a direct gateway call.
MaxAttemptsBound == 3

\* The number of provisioner operations a client invokes in one behaviour.
MaxInvocations == 2

\* The largest max_attempts a client passes to a readiness wait.
MaxPolls == 2

----------------------------------------------------------------------------
(* Remote outcomes of one attempt.                                         *)

\* A not-found list that lost the code of the budgets service.
NotFoundCodesWithoutNotFoundException == {"NoSuchEntity", "ResourceNotFoundException"}

\* The error codes resource_exists reads as "the resource is absent".
NotFoundCodes == {"NoSuchEntity", "ResourceNotFoundException", "NotFoundException"}

\* A non-retryable list that lost its permission-denied entry.
NonRetryableWithoutAccessDenied == {"ValidationError", "InvalidParameter"}

\* The error codes safe_call_with_retry raises at once, without a retry.
NonRetryable == {"AccessDenied", "ValidationError", "InvalidParameter"}

\* Codes of botocore ClientError responses the model distinguishes.
ClientErrorCodes ==
    {"NoSuchEntity", "ResourceNotFoundException", "NotFoundException",
     "RepositoryNotFoundException", "NotFound", "ParameterNotFound",
     "AccessDenied", "ValidationError", "InvalidParameter",
     "Throttling", "EntityAlreadyExists"}

\* An exception that is not a ClientError (a connection failure, a timeout).
OtherException == "Exception"

IsClientError(o) == o \in ClientErrorCodes

Outcomes == {"ok"} \cup ClientErrorCodes \cup {OtherException}

\* All sequences of length n over the set S.
SeqsOfLen(S, n) == [1..n -> S]

\* The answers to the requests of a call; in dry-run the remote is not asked.
Oracle(dry_run, answers, n) ==
    IF dry_run THEN {[i \in 1..n |-> "ok"]} ELSE SeqsOfLen(answers, n)

----------------------------------------------------------------------------
(* The remote operation gateway: AWSServiceManager.                        *)

NoValue == [tag |-> "none", at |-> 0]
NoError == [code |-> "none", at |-> 0]

\* The value safe_call_with_retry returns in dry-run mode (Python's None).
NoneValue == [tag |-> "None", at |-> 0]

\* The defaults of safe_call_with_retry's max_attempts and base_delay.
DefaultMaxAttempts == 3
DefaultBaseDelay == 1

\* delay = base_delay * (2 ** attempt), attempt counted from 0.
backoff_delay(base_delay, attempt) == base_delay * (2 ^ attempt)

\* A gateway that gives up one attempt early.
may_retry_one_short(attempt, max_attempts) == attempt < max_attempts - 2

\* "if attempt < max_attempts - 1": a failed attempt is followed by another.
may_retry(attempt, max_attempts) == attempt < max_attempts - 1

GwReturn(value, acc) ==
    [kind |-> "return", value |-> value, err |-> NoError,
     attempts |-> acc.attempts, sleeps |-> acc.sleeps]

GwRaise(err, acc) ==
    [kind |-> "raise", value |-> NoValue, err |-> err,
     attempts |-> acc.attempts, sleeps |-> acc.sleeps]

\* The loop "for attempt in range(max_attempts)" from iteration `attempt` on.
\* outs[k] is what the remote API answers to the k-th request of this call;
\* acc carries the number of requests made, the sleeps taken (each with the
\* attempt it precedes) and last_exception.
RECURSIVE retry_loop(_, _, _, _, _, _)
retry_loop(attempt, dry_run, max_attempts, base_delay, outs, acc) ==
    IF attempt >= max_attempts
    THEN \* the loop ran out: raise last_exception (None raises TypeError)
         IF acc.last_exception = NoError
         THEN GwRaise([code |-> "TypeError", at |-> 0], acc)
         ELSE GwRaise(acc.last_exception, acc)
    ELSE IF dry_run
    THEN GwReturn(NoneValue, acc)
    ELSE LET o == outs[attempt + 1]
             e == [code |-> o, at |-> attempt + 1]
             made == acc.attempts + 1
             failed == [acc EXCEPT !.attempts = made, !.last_exception = e]
         IN  IF o = "ok"
             THEN GwReturn([tag |-> "response", at |-> attempt + 1],
                           [acc EXCEPT !.attempts = made])
             ELSE IF IsClientError(o)
             THEN IF o \in NonRetryable
                  THEN GwRaise(e, failed)
                  ELSE IF may_retry(attempt, max_attempts)
                  THEN retry_loop(attempt + 1, dry_run, max_attempts, base_delay, outs,
                           [failed EXCEPT !.sleeps = Append(@,
                               [before |-> attempt + 2,
                                secs |-> backoff_delay(base_delay, attempt)])])
                  ELSE GwRaise(e, failed)
             ELSE \* except Exception: no sleep before the next attempt
                  IF attempt = max_attempts - 1
                  THEN GwRaise(e, failed)
                  ELSE retry_loop(attempt + 1, dry_run, max_attempts, base_delay, outs, failed)

\* A gateway that reads max_attempts as the number of retries.
safe_call_retries_not_attempts(dry_run, max_attempts, base_delay, outs) ==
    retry_loop(0, dry_run, max_attempts + 1, base_delay, outs,
               [attempts |-> 0, sleeps |-> <<>>, last_exception |-> NoError])

safe_call_with_retry(dry_run, max_attempts, base_delay, outs) ==
    retry_loop(0, dry_run, max_attempts, base_delay, outs,
               [attempts |-> 0, sleeps |-> <<>>, last_exception |-> NoError])

\* A gateway whose default call lost the dry-run interception.
safe_call_not_intercepted(dry_run, outs) ==
    safe_call_with_retry(FALSE, DefaultMaxAttempts, DefaultBaseDelay, outs)

safe_call(dry_run, outs) ==
    safe_call_with_retry(dry_run, DefaultMaxAttempts, DefaultBaseDelay, outs)

\* resource_exists: True when the check call returns, False on a not-found
\* ClientError, any other error propagates. `call` is the gateway call made.
resource_exists(dry_run, outs) ==
    LET r == safe_call(dry_run, outs)
    IN  IF r.kind = "return"
        THEN [kind |-> "return", exists |-> TRUE, err |-> NoError, call |-> r]
        ELSE IF IsClientError(r.err.code) /\ r.err.code \in NotFoundCodes
        THEN [kind |-> "return", exists |-> FALSE, err |-> NoError, call |-> r]
        ELSE [kind |-> "raise", exists |-> FALSE, err |-> r.err, call |-> r]

\* IAMManager and ParameterStoreManager take their AWSServiceManager from
\* aws/base.py, a module that is not among the sources. Its gateway is
\* modelled as the design documents it: in dry-run mode no request and a
\* placeholder value; otherwise the request, a non-retryable error raised at
\* once, any other error retried with exponential backoff up to the maximum
\* number of attempts, then the last error raised.
ImportsBase == {"iam", "ssm"}

base_safe_call(dry_run, outs) ==
    retry_loop(0, dry_run, DefaultMaxAttempts, DefaultBaseDelay, outs,
               [attempts |-> 0, sleeps |-> <<>>, last_exception |-> NoError])

\* The existence check of aws/base.py: a not-found error is False, any
\* other error propagates.
base_resource_exists(dry_run, outs) ==
    LET r == base_safe_call(dry_run, outs)
    IN  IF r.kind = "return"
        THEN [kind |-> "return", exists |-> TRUE, err |-> NoError, call |-> r]
        ELSE IF r.err.code \in NotFoundCodes
        THEN [kind |-> "return", exists |-> FALSE, err |-> NoError, call |-> r]
        ELSE [kind |-> "raise", exists |-> FALSE, err |-> r.err, call |-> r]

\* self.safe_call and self.resource_exists as manager mgr inherits them.
manager_safe_call(mgr, dry_run, outs) ==
    IF mgr \in ImportsBase THEN base_safe_call(dry_run, outs)
    ELSE safe_call(dry_run, outs)

manager_resource_exists(mgr, dry_run, outs) ==
    IF mgr \in ImportsBase THEN base_resource_exists(dry_run, outs)
    ELSE resource_exists(dry_run, outs)

----------------------------------------------------------------------------
(* State shared by the specifications.                                     *)

ManagerNames == {"lambda", "iam", "scheduler", "budget", "ecr", "container_lambda", "ssm"}

\* The account the credentials resolve to, and the value before resolution.
RealAccount == "111122223333"
UnsetAccount == "unset"

NoHandle == [svc |-> "none", account |-> "", name |-> ""]

NoResult == [kind |-> "none", value |-> NoHandle, err |-> NoError]

NoCall ==
    [api |-> "none", dry_run |-> FALSE, max_attempts |-> 0, base_delay |-> 0,
     outs |-> <<>>, res |-> GwRaise(NoError, [attempts |-> 0, sleeps |-> <<>>])]

\* No provisioner operation in progress. account, timeout, memory_size and
\* pkg are the arguments of the operation, max_polls the max_attempts of its
\* readiness wait and polls the polls made, pre the registry and mark the
\* length of the log when it began, faulted whether a request of the
\* operation was answered with a failure the remote state does not explain.
IdleProc ==
    [pc |-> "idle", op |-> "none", result |-> NoResult, polls |-> 0,
     max_polls |-> 0, seen |-> "none", account |-> "", timeout |-> 0,
     memory_size |-> 0, pkg |-> "none", pre |-> {}, mark |-> 0,
     faulted |-> FALSE]

\* The orchestrator before construction. steps is deployment_steps (names),
\* idx the position of deploy()'s loop in it, sub the point the executing
\* step action is at ("none": no step action is executing), err the error
\* deploy() or the constructor raised.
NewOrch ==
    [phase |-> "new", steps |-> <<>>, idx |-> 0, sub |-> "none",
     package_path |-> "none", err |-> NoError]

\* One gateway call as lastCall keeps it.
CallRecord(api, dry_run, max_attempts, base_delay, outs, res) ==
    [api |-> api, dry_run |-> dry_run, max_attempts |-> max_attempts,
     base_delay |-> base_delay, outs |-> outs, res |-> res]

Event(ev, what, res, n) == [ev |-> ev, what |-> what, res |-> res, n |-> n]

\* The log l after a gateway call of api on resource res that ended as r:
\* one "call" event when at least one request went out.
LogCallTo(l, api, res, r) ==
    IF r.attempts > 0 THEN Append(l, Event("call", api, res, 0)) ELSE l

\* The log l after time.sleep(secs).
LogSleep(l, secs) == Append(l, Event("sleep", "time.sleep", "", secs))

\* The managers as a client constructs them directly: Manager(region, dry_run).
ClientManagers(dry_run) ==
    [m \in ManagerNames |->
        [built |-> TRUE, dry_run |-> dry_run,
         account_id |-> IF m = "budget" THEN RealAccount ELSE ""]]

ClientConfig(dry_run) ==
    [kind |-> "archive", dry_run |-> dry_run, local_test_enabled |-> FALSE,
     enable_budget |-> FALSE, account_id |-> RealAccount,
     timeout |-> 300, memory_size |-> 512, ecr_repository_uri |-> NoHandle]

----------------------------------------------------------------------------
(* The remote account, as the remote API answers for it.                   *)

Resources ==
    {"role_lambda", "pol_lambda", "role_sched", "pol_sched", "role_budget",
     "pol_budget", "pol_ssm", "pol_ecr", "topic", "sub", "budget",
     "budget_notif", "schedule", "function", "repo", "param"}

CheckApis ==
    {"get_role", "get_function", "get_schedule", "describe_budget",
     "describe_repositories", "get_topic_attributes", "get_parameter",
     "list_subscriptions_by_topic", "get_authorization_token"}

CreateApis ==
    {"create_role", "create_function", "create_schedule", "create_budget",
     "create_repository", "create_topic"}

\* The requests that change the remote account.
MutatingApis ==
    CreateApis \cup
    {"attach_role_policy", "put_role_policy", "subscribe", "update_budget",
     "update_schedule", "update_function_code", "update_function_configuration",
     "put_parameter"}

\* The error code each service answers for a resource that does not exist.
NotFoundCodeOf(api) ==
    CASE api = "get_role" -> "NoSuchEntity"
      [] api \in {"get_function", "get_schedule"} -> "ResourceNotFoundException"
      [] api = "describe_budget" -> "NotFoundException"
      [] api = "describe_repositories" -> "RepositoryNotFoundException"
      [] api \in {"get_topic_attributes", "list_subscriptions_by_topic"} -> "NotFound"
      [] api = "get_parameter" -> "ParameterNotFound"
      [] OTHER -> "ResourceNotFoundException"

\* What a request on resource res needs to exist.
Requires(res) ==
    CASE res = "pol_lambda" -> {"role_lambda"}
      [] res = "pol_ssm" -> {"role_lambda"}
      [] res = "pol_ecr" -> {"role_lambda"}
      [] res = "pol_sched" -> {"role_sched"}
      [] res = "pol_budget" -> {"role_budget"}
      [] res = "sub" -> {"topic"}
      [] OTHER -> {}

\* The answer of a consistent remote account holding reg to a request.
Natural(api, res, reg) ==
    IF api = "get_authorization_token" THEN "ok"
    ELSE IF api \in CheckApis
    THEN IF res \in reg THEN "ok" ELSE NotFoundCodeOf(api)
    ELSE IF api \in {"create_topic", "put_parameter"} THEN "ok"
    ELSE IF api \in CreateApis
    THEN IF res \in reg THEN "EntityAlreadyExists" ELSE "ok"
    ELSE IF api \in {"attach_role_policy", "put_role_policy", "subscribe"}
    THEN IF Requires(res) \subseteq reg THEN "ok" ELSE NotFoundCodeOf("get_role")
    ELSE IF res \in reg THEN "ok" ELSE NotFoundCodeOf(api)

\* The remote account after a successful request.
Effect(api, res, rem) ==
    CASE api = "create_function" ->
             [rem EXCEPT !.reg = @ \cup {res}, !.fn_state = "Pending"]
      [] api \in {"update_function_code", "update_function_configuration"} ->
             [rem EXCEPT !.fn_update = "InProgress"]
      [] api = "create_budget" ->
             [rem EXCEPT !.reg = @ \cup {res, "budget_notif"}]
      [] api \in MutatingApis \ {"update_budget", "update_schedule"} ->
             [rem EXCEPT !.reg = @ \cup {res}]
      [] OTHER -> rem

\* Failures the remote API may answer to any request of a provisioner.
ProvisionFaults == {"Throttling", "AccessDenied"}

\* What the remote may answer to one request: what its state implies, or,
\* for one call of an operation at most, a failure.
Answers(api, res) ==
    {Natural(api, res, remote.reg)} \cup
    (IF proc.faulted THEN {} ELSE ProvisionFaults)

\* The answers the remote may give to the requests of one gateway call.
ProvOracle(dry_run, api, res) ==
    Oracle(dry_run, Answers(api, res), DefaultMaxAttempts)

\* The answers the call used; the others were never asked for.
Consumed(outs, r) ==
    [k \in DOMAIN outs |-> IF k <= r.attempts THEN outs[k] ELSE "unused"]

\* Whether one of the requests the call made was answered with a failure
\* that the state of the remote account does not explain.
Faulted(api, res, outs, r) ==
    \E k \in 1..r.attempts : outs[k] # Natural(api, res, remote.reg)

PyError(name) == [code |-> name, at |-> 0]

----------------------------------------------------------------------------
(* Provisioner operations. proc.pc is the call site the operation is at;   *)
(* it ends at "done" with proc.result what it returned or raised.          *)

At(label) == [proc EXCEPT !.pc = label]

Returned(handle) ==
    [proc EXCEPT !.pc = "done",
                 !.result = [kind |-> "return", value |-> handle, err |-> NoError]]

Raised(err) ==
    [proc EXCEPT !.pc = "done",
                 !.result = [kind |-> "raise", value |-> NoHandle, err |-> err]]

WithFault(p, f) == [p EXCEPT !.faulted = @ \/ f]

\* self.resource_exists(api, ...) at a call site: an error propagates, else
\* the operation goes on as whenFound or whenAbsent.
CheckSite(label, mgr, api, res, whenFound, whenAbsent) ==
    /\ proc.pc = label
    /\ \E outs \in ProvOracle(mgrs[mgr].dry_run, api, res) :
         LET x == manager_resource_exists(mgr, mgrs[mgr].dry_run, outs)
         IN  /\ lastCall' = CallRecord(api, mgrs[mgr].dry_run, DefaultMaxAttempts,
                                       DefaultBaseDelay, Consumed(outs, x.call), x.call)
             /\ log' = LogCallTo(log, api, res, x.call)
             /\ proc' = WithFault(IF x.kind = "raise" THEN Raised(PyError(x.err.code))
                                  ELSE IF x.exists THEN whenFound ELSE whenAbsent,
                                  Faulted(api, res, outs, x.call))
    /\ UNCHANGED <<config, mgrs, remote, orch, hist>>

\* self.safe_call(api, ...) at a call site inside "try ... except <caught>",
\* followed by time.sleep(secs) unless dry-run (secs = 0: no sleep there):
\* the operation goes on as onReturn, or as onCaught when the call raised an
\* error the handler catches; any other error propagates.
GatewaySite(label, mgr, api, res, secs, onReturn, caught, onCaught) ==
    /\ proc.pc = label
    /\ \E outs \in ProvOracle(mgrs[mgr].dry_run, api, res) :
         LET r == manager_safe_call(mgr, mgrs[mgr].dry_run, outs)
             l == LogCallTo(log, api, res, r)
         IN  /\ lastCall' = CallRecord(api, mgrs[mgr].dry_run, DefaultMaxAttempts,
                                       DefaultBaseDelay, Consumed(outs, r), r)
             /\ log' = IF r.kind = "return" /\ secs > 0 /\ ~mgrs[mgr].dry_run
                       THEN LogSleep(l, secs) ELSE l
             /\ remote' = IF r.kind = "return" /\ r.attempts > 0
                          THEN Effect(api, res, remote) ELSE remote
             /\ proc' = WithFault(IF r.kind = "return" THEN onReturn
                                  ELSE IF r.err.code \in caught THEN onCaught
                                  ELSE Raised(PyError(r.err.code)),
                                  Faulted(api, res, outs, r))
    /\ UNCHANGED <<config, mgrs, orch, hist>>

\* A gateway call whose errors all propagate.
CallSite(label, mgr, api, res, secs, next) ==
    GatewaySite(label, mgr, api, res, secs, next, {}, next)

\* client.<api>(...) called on the service client itself, not through the
\* gateway: one request, in dry-run mode too, inside "try ... except".
DirectSite(label, mgr, api, res, onReturn, caught, onCaught) ==
    /\ proc.pc = label
    /\ \E o \in Answers(api, res) :
         LET e == [code |-> o, at |-> 1]
             acc == [attempts |-> 1, sleeps |-> <<>>]
             r == IF o = "ok" THEN GwReturn([tag |-> "response", at |-> 1], acc)
                  ELSE GwRaise(e, acc)
         IN  /\ lastCall' = CallRecord(api, mgrs[mgr].dry_run, 1, 0, <<o>>, r)
             /\ log' = Append(log, Event("direct", api, res, 0))
             /\ remote' = IF o = "ok" THEN Effect(api, res, remote) ELSE remote
             /\ proc' = WithFault(IF o = "ok" THEN onReturn
                                  ELSE IF o \in caught THEN onCaught
                                  ELSE Raised(PyError(o)),
                                  o # Natural(api, res, remote.reg))
    /\ UNCHANGED <<config, mgrs, orch, hist>>

\* A point of an operation where no request is made.
LocalSite(label, next) ==
    /\ proc.pc = label
    /\ proc' = next
    /\ UNCHANGED <<config, mgrs, remote, orch, hist, log, lastCall>>

\* role_arn = f"arn:aws:iam::{account_id}:role/{role_name}"
RoleArn(account_id, role) == [svc |-> "iam", account |-> account_id, name |-> role]

(* IAMManager.ensure_lambda_role *)
ensure_lambda_role_check ==
    CheckSite("ensure_lambda_role", "iam", "get_role", "role_lambda",
              Returned(RoleArn(proc.account, "role_lambda")),
              At("ensure_lambda_role:create"))

ensure_lambda_role_create ==
    CallSite("ensure_lambda_role:create", "iam", "create_role", "role_lambda", 0,
             At("ensure_lambda_role:attach"))

ensure_lambda_role_attach ==
    CallSite("ensure_lambda_role:attach", "iam", "attach_role_policy", "pol_lambda", 10,
             Returned(RoleArn(proc.account, "role_lambda")))

(* IAMManager.ensure_scheduler_role *)
ensure_scheduler_role_check ==
    CheckSite("ensure_scheduler_role", "iam", "get_role", "role_sched",
              Returned(RoleArn(proc.account, "role_sched")),
              At("ensure_scheduler_role:create"))

ensure_scheduler_role_create ==
    CallSite("ensure_scheduler_role:create", "iam", "create_role", "role_sched", 0,
             At("ensure_scheduler_role:put"))

ensure_scheduler_role_put ==
    CallSite("ensure_scheduler_role:put", "iam", "put_role_policy", "pol_sched", 5,
             Returned(RoleArn(proc.account, "role_sched")))

(* IAMManager.ensure_budget_action_role *)
ensure_budget_action_role_check ==
    CheckSite("ensure_budget_action_role", "iam", "get_role", "role_budget",
              Returned(RoleArn(proc.account, "role_budget")),
              At("ensure_budget_action_role:create"))

ensure_budget_action_role_create ==
    CallSite("ensure_budget_action_role:create", "iam", "create_role", "role_budget", 0,
             Returned(RoleArn(proc.account, "role_budget")))

(* IAMManager.attach_budget_action_policy *)
attach_budget_action_policy ==
    CallSite("attach_budget_action_policy", "iam", "put_role_policy", "pol_budget", 10,
             Returned(NoHandle))

(* IAMManager.attach_parameter_store_policy *)
attach_parameter_store_policy ==
    CallSite("attach_parameter_store_policy", "iam", "put_role_policy", "pol_ssm", 0,
             Returned(NoHandle))

\* The steps of the identity operations the orchestrator reaches.
IamStepOfDeploy ==
    \/ ensure_lambda_role_check
    \/ ensure_lambda_role_create
    \/ ensure_lambda_role_attach
    \/ ensure_scheduler_role_check
    \/ ensure_scheduler_role_create
    \/ ensure_scheduler_role_put
    \/ ensure_budget_action_role_check
    \/ ensure_budget_action_role_create
    \/ attach_budget_action_policy

IamStep == IamStepOfDeploy \/ attach_parameter_store_policy

\* Every error an "except Exception" handler catches.
AnyError == (Outcomes \ {"ok"}) \cup {"TypeError"}

\* The account number ECRManager puts in its dry-run placeholders.
MockRegistryAccount == "123456789012"

RepoUri(account_id) == [svc |-> "ecr", account |-> account_id, name |-> "repo"]

\* An ensure_repository that creates the repository without describing it.
ensure_repository_without_describe ==
    LocalSite("ensure_repository", At("ensure_repository:create"))

(* ECRManager.ensure_repository *)
ensure_repository_describe ==
    IF mgrs["ecr"].dry_run
    THEN LocalSite("ensure_repository", Returned(RepoUri(MockRegistryAccount)))
    ELSE GatewaySite("ensure_repository", "ecr", "describe_repositories", "repo", 0,
                     Returned(RepoUri(RealAccount)),
                     {"RepositoryNotFoundException"}, At("ensure_repository:create"))

ensure_repository_create ==
    CallSite("ensure_repository:create", "ecr", "create_repository", "repo", 0,
             Returned(RepoUri(RealAccount)))

(* ECRManager.get_authorization_token *)
get_authorization_token ==
    IF mgrs["ecr"].dry_run
    THEN LocalSite("get_authorization_token",
                   Returned([svc |-> "ecr-auth", account |-> MockRegistryAccount,
                             name |-> "registry"]))
    ELSE CallSite("get_authorization_token", "ecr", "get_authorization_token", "repo", 0,
                  Returned([svc |-> "ecr-auth", account |-> RealAccount,
                            name |-> "registry"]))

EcrStep ==
    \/ ensure_repository_describe
    \/ ensure_repository_create
    \/ get_authorization_token

\* topic_arn = f"arn:aws:sns:{self.region}:{self.account_id}:{topic_name}"
TopicArn == [svc |-> "sns", account |-> mgrs["budget"].account_id, name |-> "topic"]

\* _ensure_sns_topic returns topic_arn; setup_budget_enforcement goes on
\* with _ensure_budget_with_notifications.
AfterTopic ==
    IF proc.op = "setup_budget_enforcement" THEN At("_budget_exists")
    ELSE Returned(TopicArn)

(* BudgetManager._ensure_sns_topic: get_topic_attributes *)
ensure_sns_topic_get ==
    DirectSite("_ensure_sns_topic", "budget", "get_topic_attributes", "topic",
               At("_is_email_subscribed"), {"NotFound"}, At("_ensure_sns_topic:create"))

(* BudgetManager._ensure_sns_topic: create_topic, if not self.dry_run *)
ensure_sns_topic_create ==
    IF mgrs["budget"].dry_run
    THEN LocalSite("_ensure_sns_topic:create", At("_is_email_subscribed"))
    ELSE DirectSite("_ensure_sns_topic:create", "budget", "create_topic", "topic",
                    At("_is_email_subscribed"), {}, proc)

(* BudgetManager._is_email_subscribed *)
is_email_subscribed ==
    IF mgrs["budget"].dry_run
    THEN LocalSite("_is_email_subscribed", At("_ensure_sns_topic:subscribe"))
    ELSE DirectSite("_is_email_subscribed", "budget", "list_subscriptions_by_topic", "topic",
                    IF "sub" \in remote.reg THEN AfterTopic
                    ELSE At("_ensure_sns_topic:subscribe"),
                    AnyError, At("_ensure_sns_topic:subscribe"))

(* BudgetManager._ensure_sns_topic: subscribe, if not self.dry_run *)
ensure_sns_topic_subscribe ==
    IF mgrs["budget"].dry_run
    THEN LocalSite("_ensure_sns_topic:subscribe", AfterTopic)
    ELSE DirectSite("_ensure_sns_topic:subscribe", "budget", "subscribe", "sub",
                    AfterTopic, {}, proc)

(* BudgetManager._budget_exists *)
budget_exists ==
    GatewaySite("_budget_exists", "budget", "describe_budget", "budget", 0,
                At("_update_budget"), AnyError, At("_create_budget"))

(* BudgetManager._create_budget *)
create_budget ==
    CallSite("_create_budget", "budget", "create_budget", "budget", 0, Returned(NoHandle))

(* BudgetManager._update_budget *)
update_budget ==
    CallSite("_update_budget", "budget", "update_budget", "budget", 0, Returned(NoHandle))

BudgetStep ==
    \/ ensure_sns_topic_get
    \/ ensure_sns_topic_create
    \/ is_email_subscribed
    \/ ensure_sns_topic_subscribe
    \/ budget_exists
    \/ create_budget
    \/ update_budget

(* SchedulerManager._schedule_exists *)
schedule_exists ==
    GatewaySite("ensure_schedule", "scheduler", "get_schedule", "schedule", 0,
                At("_update_schedule"), AnyError, At("_create_schedule"))

(* SchedulerManager._create_schedule *)
create_schedule ==
    CallSite("_create_schedule", "scheduler", "create_schedule", "schedule", 0,
             Returned(NoHandle))

\* An update that returns without requesting anything.
update_schedule_not_requested == LocalSite("_update_schedule", Returned(NoHandle))

(* SchedulerManager._update_schedule *)
update_schedule ==
    CallSite("_update_schedule", "scheduler", "update_schedule", "schedule", 0,
             Returned(NoHandle))

SchedulerStep ==
    \/ schedule_exists
    \/ create_schedule
    \/ update_schedule

\* The account number LambdaManager puts in its dry-run placeholders.
SentinelAccount == "000000000000"

\* max_attempts of _wait_for_function_active and _wait_for_function_updated.
WaitMaxAttempts == 20

FunctionArn(account_id) == [svc |-> "lambda", account |-> account_id, name |-> "function"]

\* A validation that forgot the 64 MB increments.
validate_lambda_parameters_any_increment(timeout, memory_size) ==
    /\ ~(timeout < 1 \/ timeout > 900)
    /\ ~(memory_size < 128 \/ memory_size > 10240)

\* _validate_lambda_parameters: TRUE when it returns, FALSE when it raises.
validate_lambda_parameters(timeout, memory_size) ==
    /\ ~(timeout < 1 \/ timeout > 900)
    /\ ~(memory_size < 128 \/ memory_size > 10240)
    /\ ~(memory_size % 64 # 0)

\* The manager the function operation in progress was invoked on.
LambdaMgr == IF proc.op = "deploy_container_function" THEN "container_lambda" ELSE "lambda"

\* _create_function / _update_function from their first line on: the
\* parameters are validated, then the first call is made.
Validated(next) ==
    IF validate_lambda_parameters(proc.timeout, proc.memory_size) THEN next
    ELSE Raised(PyError("ValueError"))

StartWait(label) == [proc EXCEPT !.pc = label, !.polls = 0, !.max_polls = WaitMaxAttempts]

(* LambdaManager.deploy_function: package checks, then the existence check *)
deploy_function ==
    IF proc.pkg = "ok"
    THEN CheckSite("deploy_function", "lambda", "get_function", "function",
                   Validated(At("_update_function")), Validated(At("_create_function")))
    ELSE LocalSite("deploy_function",
                   Raised(PyError(IF proc.pkg = "missing" THEN "FileNotFoundError"
                                  ELSE "ValueError")))

(* LambdaManager._create_function *)
create_function ==
    CallSite("_create_function", "lambda", "create_function", "function", 0,
             IF mgrs["lambda"].dry_run THEN Returned(FunctionArn(SentinelAccount))
             ELSE StartWait("_wait_for_function_active"))

\* An update that goes on to the configuration without waiting for the code.
update_function_code_without_wait ==
    CallSite("_update_function", "lambda", "update_function_code", "function", 0,
             At("_update_function:configuration"))

(* LambdaManager._update_function: update_function_code *)
update_function_code ==
    CallSite("_update_function", "lambda", "update_function_code", "function", 0,
             IF mgrs["lambda"].dry_run THEN At("_update_function:configuration")
             ELSE StartWait("_wait_for_function_updated"))

(* LambdaManager._update_function: update_function_configuration *)
update_function_configuration ==
    CallSite("_update_function:configuration", "lambda",
             "update_function_configuration", "function", 0,
             IF mgrs["lambda"].dry_run THEN Returned(FunctionArn(SentinelAccount))
             ELSE Returned(FunctionArn(RealAccount)))

(* ContainerLambdaManager.deploy_container_function *)
deploy_container_function ==
    CheckSite("deploy_container_function", "container_lambda", "get_function", "function",
              Validated(At("_update_container_function")),
              Validated(At("_create_container_function")))

(* ContainerLambdaManager._create_container_function *)
create_container_function ==
    CallSite("_create_container_function", "container_lambda", "create_function",
             "function", 0,
             IF mgrs["container_lambda"].dry_run THEN Returned(FunctionArn(SentinelAccount))
             ELSE StartWait("_wait_for_function_active"))

(* ContainerLambdaManager._update_container_function: update_function_code *)
update_container_function_code ==
    CallSite("_update_container_function", "container_lambda", "update_function_code",
             "function", 0,
             IF mgrs["container_lambda"].dry_run
             THEN At("_update_container_function:configuration")
             ELSE StartWait("_wait_for_function_updated"))

(* ContainerLambdaManager._update_container_function: configuration *)
update_container_function_configuration ==
    CallSite("_update_container_function:configuration", "container_lambda",
             "update_function_configuration", "function", 0,
             IF mgrs["container_lambda"].dry_run THEN Returned(FunctionArn(SentinelAccount))
             ELSE Returned(FunctionArn(RealAccount)))

\* What a function in state st may have become by the next poll.
NextStates(st) ==
    IF st = "Pending" THEN {"Pending", "Active", "Failed", "Inactive"}
    ELSE IF st = "InProgress" THEN {"InProgress", "Successful", "Failed"}
    ELSE {st}

\* Where the operation goes on when its readiness wait has returned.
AfterWait ==
    CASE proc.op \in {"_wait_for_function_active", "_wait_for_function_updated"} ->
             Returned(NoHandle)
      [] proc.pc = "_wait_for_function_active" -> Returned(FunctionArn(RealAccount))
      [] proc.op = "deploy_container_function" ->
             At("_update_container_function:configuration")
      [] OTHER -> At("_update_function:configuration")

\* The wait is over after its poll number n, which observed seen: a wait
\* the client invoked keeps its count, inside a function operation the
\* loop counter is gone with the wait.
WaitOver(p, n, seen) ==
    [p EXCEPT !.seen = seen,
              !.polls = IF proc.op \in {"_wait_for_function_active",
                                         "_wait_for_function_updated"}
                        THEN n ELSE 0]

\* A polling loop that does not count its iterations.
WaitPollUncounted(label, field, ready, waiting) ==
    /\ proc.pc = label
    /\ proc.polls < proc.max_polls
    /\ ~mgrs[LambdaMgr].dry_run
    /\ \E outs \in ProvOracle(FALSE, "get_function", "function"),
          st \in NextStates(remote[field]) :
         LET r == safe_call(FALSE, outs)
             attempt == proc.polls
             last == attempt = proc.max_polls - 1
             seen == IF r.kind = "return" THEN st ELSE "error"
             polled == [proc EXCEPT !.seen = seen]
             returns == WaitOver(AfterWait, attempt + 1, seen)
             timeout == WaitOver(Raised(PyError("TimeoutError")), attempt + 1, seen)
             \* sleep and poll again, or give up at the last iteration
             retries == IF last THEN timeout ELSE polled
             next == IF r.kind = "raise" THEN retries
                     ELSE IF st = ready THEN returns
                     ELSE IF st = "Failed" THEN retries
                     ELSE IF st \in waiting THEN retries
                     ELSE \* no branch taken: the next iteration, or the loop ends
                          IF last THEN returns ELSE polled
         IN  /\ lastCall' = CallRecord("get_function", FALSE, DefaultMaxAttempts,
                                       DefaultBaseDelay, Consumed(outs, r), r)
             /\ remote' = IF r.kind = "return" THEN [remote EXCEPT ![field] = st]
                          ELSE remote
             /\ proc' = WithFault(next, Faulted("get_function", "function", outs, r))
    /\ UNCHANGED <<config, mgrs, orch, hist, log>>

\* One iteration of the polling loop of a readiness wait, at iteration
\* proc.polls of range(proc.max_polls): field is the field of the remote
\* function the wait reads, ready its ready value, waiting the values the
\* loop sleeps on. The loop body is "try: poll ... except Exception".
WaitPoll(label, field, ready, waiting) ==
    /\ proc.pc = label
    /\ proc.polls < proc.max_polls
    /\ ~mgrs[LambdaMgr].dry_run
    /\ \E outs \in ProvOracle(FALSE, "get_function", "function"),
          st \in NextStates(remote[field]) :
         LET r == safe_call(FALSE, outs)
             attempt == proc.polls
             last == attempt = proc.max_polls - 1
             seen == IF r.kind = "return" THEN st ELSE "error"
             polled == [proc EXCEPT !.polls = attempt + 1, !.seen = seen]
             returns == WaitOver(AfterWait, attempt + 1, seen)
             timeout == WaitOver(Raised(PyError("TimeoutError")), attempt + 1, seen)
             \* sleep and poll again, or give up at the last iteration
             retries == IF last THEN timeout ELSE polled
             next == IF r.kind = "raise" THEN retries
                     ELSE IF st = ready THEN returns
                     ELSE IF st = "Failed" THEN retries
                     ELSE IF st \in waiting THEN retries
                     ELSE \* no branch taken: the next iteration, or the loop ends
                          IF last THEN returns ELSE polled
         IN  /\ lastCall' = CallRecord("get_function", FALSE, DefaultMaxAttempts,
                                       DefaultBaseDelay, Consumed(outs, r), r)
             /\ remote' = IF r.kind = "return" THEN [remote EXCEPT ![field] = st]
                          ELSE remote
             /\ proc' = WithFault(next, Faulted("get_function", "function", outs, r))
    /\ UNCHANGED <<config, mgrs, orch, hist, log>>

\* "if self.dry_run: return", and a loop of no iteration.
WaitSkip(label) ==
    /\ proc.pc = label
    /\ mgrs[LambdaMgr].dry_run \/ proc.max_polls = 0
    /\ proc' = AfterWait
    /\ UNCHANGED <<config, mgrs, remote, orch, hist, log, lastCall>>

(* LambdaManager._wait_for_function_active *)
wait_for_function_active ==
    WaitPoll("_wait_for_function_active", "fn_state", "Active", {"Pending"})

wait_for_function_active_skipped == WaitSkip("_wait_for_function_active")

(* LambdaManager._wait_for_function_updated *)
wait_for_function_updated ==
    WaitPoll("_wait_for_function_updated", "fn_update", "Successful", {"InProgress", ""})

wait_for_function_updated_skipped == WaitSkip("_wait_for_function_updated")

\* The steps of the function operations the orchestrator reaches.
LambdaStepOfDeploy ==
    \/ deploy_function
    \/ create_function
    \/ update_function_code
    \/ update_function_configuration
    \/ deploy_container_function
    \/ update_container_function_code
    \/ update_container_function_configuration
    \/ wait_for_function_active
    \/ wait_for_function_updated

(* LambdaManager._validate_lambda_parameters, called on its own *)
validate_lambda_parameters_called ==
    LocalSite("_validate_lambda_parameters",
              IF validate_lambda_parameters(proc.timeout, proc.memory_size)
              THEN Returned(NoHandle) ELSE Raised(PyError("ValueError")))

LambdaStep ==
    \/ LambdaStepOfDeploy
    \/ validate_lambda_parameters_called
    \/ create_container_function
    \/ wait_for_function_active_skipped
    \/ wait_for_function_updated_skipped

(* ParameterStoreManager.store_google_token *)
store_google_token ==
    CallSite("store_google_token", "ssm", "put_parameter", "param", 0, Returned(NoHandle))

\* One step of the provisioner operation in progress.
ProvisionerStep ==
    \/ IamStep
    \/ EcrStep
    \/ BudgetStep
    \/ SchedulerStep
    \/ LambdaStep
    \/ store_google_token

----------------------------------------------------------------------------
(* SpecGateway: a client calls one gateway method of a manager directly.   *)

\* What the remote API may answer to one request of a direct gateway call.
GatewayOutcomes ==
    {"ok", "NoSuchEntity", "Throttling", "AccessDenied", "ValidationError",
     "InvalidParameter", OtherException}

BaseDelays == {1, 3}

InitGateway ==
    /\ \E d \in BOOLEAN :
         /\ config = ClientConfig(d)
         /\ mgrs = ClientManagers(d)
    /\ remote = [reg |-> {}, fn_state |-> "none", fn_update |-> "none"]
    /\ proc = IdleProc
    /\ orch = NewOrch
    /\ hist = <<>>
    /\ log = <<>>
    /\ lastCall = NoCall

\* client: mgr.safe_call_with_retry(operation, max_attempts=N, base_delay=b)
ClientSafeCallWithRetry ==
    /\ hist = <<>>
    /\ \E n \in 0..MaxAttemptsBound, b \in BaseDelays :
         \E outs \in Oracle(mgrs["lambda"].dry_run, GatewayOutcomes, n + 1) :
            LET r == safe_call_with_retry(mgrs["lambda"].dry_run, n, b, outs)
            IN  /\ lastCall' = CallRecord("create_function", mgrs["lambda"].dry_run, n, b, outs, r)
                /\ log' = LogCallTo(log, "create_function", "function", r)
                /\ hist' = Append(hist, [op |-> "safe_call_with_retry", kind |-> r.kind,
                                         value |-> NoHandle, err |-> r.err, exists |-> FALSE])
    /\ UNCHANGED <<config, mgrs, remote, proc, orch>>

\* The answers a check operation may get: success, the not-found codes of
\* the services, and failures of the other kinds.
ExistenceOutcomes ==
    {"ok", "NoSuchEntity", "ResourceNotFoundException", "NotFoundException",
     "ParameterNotFound", "Throttling", "AccessDenied", OtherException}

CheckOperations == {"get_role", "get_function"}

\* client: mgr.resource_exists(check_operation)
ClientResourceExists ==
    /\ hist = <<>>
    /\ \E api \in CheckOperations :
       \E outs \in Oracle(mgrs["lambda"].dry_run, ExistenceOutcomes, DefaultMaxAttempts + 1) :
         LET x == resource_exists(mgrs["lambda"].dry_run, outs)
         IN  /\ lastCall' = CallRecord(api, mgrs["lambda"].dry_run, DefaultMaxAttempts,
                                       DefaultBaseDelay, outs, x.call)
             /\ log' = LogCallTo(log, api, "function", x.call)
             /\ hist' = Append(hist, [op |-> "resource_exists", kind |-> x.kind,
                                      value |-> NoHandle, err |-> x.err, exists |-> x.exists,
                                      check |-> api])
    /\ UNCHANGED <<config, mgrs, remote, proc, orch>>

NextGateway == ClientSafeCallWithRetry \/ ClientResourceExists

SpecGateway == InitGateway /\ [][NextGateway]_vars

----------------------------------------------------------------------------
(* SpecProvision: a client constructs the managers and invokes provisioner *)
(* operations on them, one after the other.                                *)

ClientOps ==
    {"ensure_lambda_role", "ensure_scheduler_role", "ensure_budget_action_role",
     "attach_budget_action_policy", "attach_parameter_store_policy",
     "ensure_repository", "get_authorization_token", "_ensure_sns_topic",
     "setup_budget_enforcement", "ensure_schedule", "deploy_function",
     "deploy_container_function", "_wait_for_function_active",
     "_wait_for_function_updated", "store_google_token",
     "_validate_lambda_parameters"}

FunctionOps == {"deploy_function", "deploy_container_function"}

WaitOps == {"_wait_for_function_active", "_wait_for_function_updated"}

\* The call site an operation starts at.
StartPc(op) == IF op = "setup_budget_enforcement" THEN "_ensure_sns_topic" ELSE op

\* The operation op as invoked with these arguments.
Call(op, account_id, timeout, memory_size, pkg, max_polls) ==
    [IdleProc EXCEPT !.pc = StartPc(op), !.op = op, !.account = account_id,
                     !.timeout = timeout, !.memory_size = memory_size,
                     !.pkg = pkg, !.max_polls = max_polls,
                     !.pre = remote.reg, !.mark = Len(log)]

Timeouts == {300, 901}
MemorySizes == {512, 100}

\* The arguments a client validates: the bounds of both ranges, their
\* neighbours, and sizes inside the range that are no multiple of 64.
ValidationTimeouts == {0, 1, 300, 900, 901}
ValidationMemorySizes == {65, 100, 128, 130, 512, 10240, 10304}
Packages == {"ok", "missing", "too_large"}

\* A remote account holding reg, its function (if any) deployed and ready.
RemoteWith(reg) ==
    [reg |-> reg,
     fn_state |-> IF "function" \in reg THEN "Active" ELSE "none",
     fn_update |-> IF "function" \in reg THEN "Successful" ELSE "none"]

\* The remote accounts a behaviour may start from.
InitialRegistries == {{}, {"role_lambda"}, Resources \ {"budget_notif"}}

ClientOrch == [NewOrch EXCEPT !.phase = "client"]

\* The number of requests to the remote API among the events es.
RECURSIVE Requests(_)
Requests(es) ==
    IF es = <<>> THEN 0
    ELSE (IF Head(es).ev \in {"call", "direct"} THEN 1 ELSE 0) + Requests(Tail(es))

\* The number of creation requests among the events es.
RECURSIVE Creations(_)
Creations(es) ==
    IF es = <<>> THEN 0
    ELSE (IF Head(es).ev \in {"call", "direct"} /\ Head(es).what \in CreateApis
          THEN 1 ELSE 0) + Creations(Tail(es))

InitProvision ==
    /\ \E d \in BOOLEAN :
         /\ config = ClientConfig(d)
         /\ mgrs = ClientManagers(d)
    /\ \E reg \in InitialRegistries : remote = RemoteWith(reg)
    /\ proc = IdleProc
    /\ orch = ClientOrch
    /\ hist = <<>>
    /\ log = <<>>
    /\ lastCall = NoCall

\* client: mgr.<op>(...), the first invocation of a behaviour
Invoke ==
    /\ orch.phase = "client"
    /\ proc.pc = "idle"
    /\ hist = <<>>
    /\ \E op \in ClientOps, t \in ValidationTimeouts, m \in ValidationMemorySizes,
          pk \in Packages, n \in 1..MaxPolls :
         /\ op \in FunctionOps => (t \in Timeouts /\ m \in MemorySizes)
         /\ proc' = Call(op, RealAccount,
                      IF op \in FunctionOps \cup {"_validate_lambda_parameters"}
                      THEN t ELSE 0,
                      IF op \in FunctionOps \cup {"_validate_lambda_parameters"}
                      THEN m ELSE 0,
                      IF op = "deploy_function" THEN pk ELSE "none",
                      IF op \in WaitOps THEN n ELSE 0)
    /\ UNCHANGED <<config, mgrs, remote, orch, hist, log, lastCall>>

\* client: mgr.<op>(...) once more, with the arguments of the invocation
\* before; the client repeats the ensure, setup and attach operations.
InvokeAgain ==
    /\ orch.phase = "client"
    /\ proc.pc = "idle"
    /\ hist # <<>>
    /\ proc.op \notin FunctionOps \cup WaitOps
    /\ Len(hist) < MaxInvocations
    /\ proc' = Call(proc.op, proc.account, proc.timeout, proc.memory_size,
                    proc.pkg, IF proc.op \in WaitOps THEN proc.max_polls ELSE 0)
    /\ UNCHANGED <<config, mgrs, remote, orch, hist, log, lastCall>>

\* client: the operation returned or raised.
ClientReturn ==
    /\ orch.phase = "client"
    /\ proc.pc = "done"
    /\ hist' = Append(hist,
                 [op |-> proc.op, kind |-> proc.result.kind, value |-> proc.result.value,
                  err |-> proc.result.err, exists |-> FALSE,
                  created |-> Creations(SubSeq(log, proc.mark + 1, Len(log))),
                  faulted |-> proc.faulted, pre |-> proc.pre, dry_run |-> config.dry_run,
                  timeout |-> proc.timeout, memory_size |-> proc.memory_size,
                  pkg |-> proc.pkg,
                  requests |-> Requests(SubSeq(log, proc.mark + 1, Len(log))),
                  slept |-> \E k \in (proc.mark + 1)..Len(log) : log[k].ev = "sleep"])
    /\ proc' = [IdleProc EXCEPT !.op = proc.op, !.account = proc.account,
                                !.timeout = proc.timeout,
                                !.memory_size = proc.memory_size, !.pkg = proc.pkg,
                                !.max_polls = proc.max_polls]
    /\ UNCHANGED <<config, mgrs, remote, orch, log, lastCall>>

NextProvision == Invoke \/ InvokeAgain \/ ClientReturn \/ ProvisionerStep

SpecProvision == InitProvision /\ [][NextProvision]_vars

\* The operation in progress keeps executing: it is sequential code that
\* no other thread preempts for ever.
SpecProvisionFair == SpecProvision /\ WF_vars(ProvisionerStep)

----------------------------------------------------------------------------
(* SpecDeploy: the orchestrator. Deployer(config) or                       *)
(* ContainerDeployer(config) is constructed, then deploy() is called.      *)

\* A step list that deploys the function before it sets up the roles.
default_deployment_steps_deploying_first ==
    <<"Budget Setup", "Build Package", "Local Test", "Lambda Deployment",
      "IAM Setup", "Schedule Setup">>

\* Deployer.get_default_deployment_steps
default_deployment_steps ==
    <<"Budget Setup", "Build Package", "Local Test", "IAM Setup",
      "Lambda Deployment", "Schedule Setup">>

\* A container step list that keeps the deployment steps in local-test mode.
container_deployment_steps_always_deploying(cfg) ==
    <<"ECR Repository Setup">>
    \o (IF cfg.enable_budget /\ ~cfg.local_test_enabled THEN <<"Budget Setup">> ELSE <<>>)
    \o <<"Container Build">>
    \o (IF cfg.local_test_enabled THEN <<"Local Container Test">> ELSE <<>>)
    \o <<"IAM Setup", "Container Deployment", "Schedule Setup">>

\* ContainerDeployer.get_default_deployment_steps
container_deployment_steps(cfg) ==
    <<"ECR Repository Setup">>
    \o (IF cfg.enable_budget /\ ~cfg.local_test_enabled THEN <<"Budget Setup">> ELSE <<>>)
    \o <<"Container Build">>
    \o (IF cfg.local_test_enabled THEN <<"Local Container Test">> ELSE <<>>)
    \o (IF ~cfg.local_test_enabled
        THEN <<"IAM Setup", "Container Deployment", "Schedule Setup">> ELSE <<>>)

\* A skip predicate that never skips the local-test step.
should_skip_step_keeping_local_test(step_name, cfg) ==
    \/ step_name = "Budget Setup" /\ (~cfg.enable_budget \/ cfg.local_test_enabled)
    \/ /\ step_name \in {"IAM Setup", "Lambda Deployment", "Schedule Setup"}
       /\ cfg.local_test_enabled

\* A skip predicate that forgot the budget step.
should_skip_step_keeping_budget(step_name, cfg) ==
    \/ step_name = "Local Test" /\ ~cfg.local_test_enabled
    \/ /\ step_name \in {"IAM Setup", "Lambda Deployment", "Schedule Setup"}
       /\ cfg.local_test_enabled

\* Deployer._should_skip_step
should_skip_step(step_name, cfg) ==
    \/ step_name = "Budget Setup" /\ (~cfg.enable_budget \/ cfg.local_test_enabled)
    \/ step_name = "Local Test" /\ ~cfg.local_test_enabled
    \/ /\ step_name \in {"IAM Setup", "Lambda Deployment", "Schedule Setup"}
       /\ cfg.local_test_enabled

\* A loop that walks the step list from its end.
StepAtFromEnd(steps, i) == steps[Len(steps) + 1 - i]

\* "for step_name, step_func in self.deployment_steps": the i-th step.
StepAt(steps, i) == steps[i]

\* A step runner that reports the failure as False instead of raising.
execute_step_reporting_failure(err) == PyError("ValueError")

\* _execute_step_safely: "except Exception as e: ...; raise".
execute_step_safely(err) == err

\* The managers before the orchestrator constructs them.
NoManagers ==
    [m \in ManagerNames |-> [built |-> FALSE, dry_run |-> FALSE, account_id |-> ""]]

\* Managers built live whatever the configuration's dry-run flag is.
BuiltManagersIgnoringDryRun(kind, dry_run, account_id) ==
    [m \in ManagerNames |->
        [built |-> TRUE, dry_run |-> FALSE, account_id |-> account_id]]

\* Manager(region, dry_run) for each manager the constructor builds.
BuiltManagers(kind, dry_run, account_id) ==
    [m \in ManagerNames |->
        IF \/ m \in {"lambda", "iam", "scheduler", "budget"}
           \/ kind = "container" /\ m \in {"ecr", "container_lambda"}
        THEN [built |-> TRUE, dry_run |-> dry_run,
              account_id |-> IF m = "budget" THEN account_id ELSE ""]
        ELSE NoManagers[m]]

InitDeploy ==
    /\ \E k \in {"archive", "container"}, d \in BOOLEAN, lt \in BOOLEAN,
          eb \in BOOLEAN, t \in Timeouts :
         config = [kind |-> k, dry_run |-> d, local_test_enabled |-> lt,
                   enable_budget |-> eb, account_id |-> UnsetAccount,
                   timeout |-> t, memory_size |-> 512,
                   ecr_repository_uri |-> NoHandle]
    /\ mgrs = NoManagers
    /\ \E reg \in InitialRegistries : remote = RemoteWith(reg)
    /\ proc = IdleProc
    /\ orch = NewOrch
    /\ hist = <<>>
    /\ log = <<>>
    /\ lastCall = NoCall

\* AWSValidator.validate returns None when the identity cannot be resolved.
NoAccount == "None"

\* An initialization that goes on whatever the validator returned.
account_resolved_unchecked(account_id) == TRUE

\* _initialize_aws_managers: "if not self.account_id: raise ValueError(...)"
account_resolved(account_id) == account_id # NoAccount

\* An initialization that keeps the account to itself.
with_account_unwritten(cfg, account_id) == cfg

\* _initialize_aws_managers: "self.config.account_id = self.account_id"
with_account(cfg, account_id) == [cfg EXCEPT !.account_id = account_id]

\* Deployer.__init__ / ContainerDeployer.__init__: _initialize_aws_managers
\* resolves the account, writes it to the configuration and builds the
\* managers; the container deployer then assembles its step list.
Construct ==
    /\ orch.phase = "new"
    /\ \E account_id \in {RealAccount, NoAccount} :
         /\ log' = Append(log, Event("identity", "get_caller_identity", account_id, 0))
         /\ IF ~account_resolved(account_id)
            THEN /\ orch' = [orch EXCEPT !.phase = "init_failed",
                                         !.err = PyError("ValueError")]
                 /\ UNCHANGED <<config, mgrs>>
            ELSE /\ config' = with_account(config, account_id)
                 /\ mgrs' = BuiltManagers(config.kind, config.dry_run, account_id)
                 /\ orch' = [orch EXCEPT
                       !.phase = "constructed",
                       !.steps = IF config.kind = "container"
                                 THEN container_deployment_steps(config) ELSE <<>>]
    /\ UNCHANGED <<remote, proc, hist, lastCall>>

\* deploy(): "if not self.deployment_steps: ... = get_default_deployment_steps()"
DeployBegin ==
    /\ orch.phase = "constructed"
    /\ orch' = [orch EXCEPT !.phase = "running", !.idx = 1,
                            !.steps = IF @ = <<>> THEN default_deployment_steps ELSE @]
    /\ log' = Append(log, Event("deploy_begin", "deploy", "", 0))
    /\ UNCHANGED <<config, mgrs, remote, proc, hist, lastCall>>

\* deploy()'s loop is at a step and no step action is executing.
AtAnyStep ==
    /\ orch.phase = "running"
    /\ orch.sub = "none"
    /\ orch.idx <= Len(orch.steps)

CurrentStep == StepAt(orch.steps, orch.idx)

\* deploy()'s loop is at step step_name and does not skip it.
AtStep(step_name) ==
    /\ AtAnyStep
    /\ CurrentStep = step_name
    /\ ~should_skip_step(step_name, config)

\* The step action that invoked a provisioner operation at sub has it back.
BackAt(sub) ==
    /\ orch.phase = "running"
    /\ orch.sub = sub
    /\ proc.pc = "done"

Began == Append(log, Event("step_begin", CurrentStep, "", orch.idx))

\* The step action returns: the loop moves to the next step.
StepReturns(l, o) ==
    /\ orch' = [o EXCEPT !.idx = @ + 1, !.sub = "none"]
    /\ log' = Append(l, Event("step_end", CurrentStep, "", orch.idx))

\* A cleanup hook that acts whatever the mode is.
cleanup_on_failure_in_every_mode(cfg) == "cleaning"

\* _cleanup_on_failure: "if self.config.dry_run or
\* self.config.local_test_enabled: return", else it announces the cleanup
\* (the hook has no other statement).  "" is the hook that returned at once.
cleanup_on_failure(cfg) ==
    IF cfg.dry_run \/ cfg.local_test_enabled THEN "" ELSE "cleaning"

\* The step action raises err: _execute_step_safely re-raises it, deploy()
\* catches it, calls _cleanup_on_failure and re-raises.
StepRaises(l, err) ==
    LET e == execute_step_safely(err)
    IN  /\ orch' = [orch EXCEPT !.phase = "failed", !.sub = "none", !.err = e]
        /\ log' = l \o <<Event("step_raise", CurrentStep, err.code, orch.idx),
                         Event("cleanup", "_cleanup_on_failure", cleanup_on_failure(config), 0),
                         Event("deploy_raise", "deploy", e.code, 0)>>

\* The step action invokes the provisioner operation op and waits at sub.
StepCalls(l, sub, op) ==
    /\ orch' = [orch EXCEPT !.sub = sub]
    /\ log' = l
    /\ proc' = Call(op, config.account_id, config.timeout, config.memory_size,
                    IF orch.package_path = "built" THEN "ok" ELSE "missing", 0)

\* deploy(): "if self._should_skip_step(step_name): continue"
SkipStep ==
    /\ AtAnyStep
    /\ should_skip_step(CurrentStep, config)
    /\ orch' = [orch EXCEPT !.idx = @ + 1]
    /\ log' = Append(log, Event("step_skip", CurrentStep, "", orch.idx))
    /\ UNCHANGED <<config, mgrs, remote, proc, hist, lastCall>>

\* A configuration whose identifiers are derived whatever the account is.
account_never_checked(cfg) == TRUE

\* config.role_arn, config.lambda_arn: "if not self.account_id: raise ValueError"
HasAccount(cfg) == cfg.account_id # UnsetAccount

\* DeployConfig.role_arn
role_arn(cfg) ==
    IF ~HasAccount(cfg)
    THEN [kind |-> "raise", value |-> NoHandle, err |-> PyError("ValueError")]
    ELSE [kind |-> "return", value |-> RoleArn(cfg.account_id, "role_lambda"),
          err |-> NoError]

\* DeployConfig.lambda_arn
lambda_arn(cfg) ==
    IF ~HasAccount(cfg)
    THEN [kind |-> "raise", value |-> NoHandle, err |-> PyError("ValueError")]
    ELSE [kind |-> "return", value |-> FunctionArn(cfg.account_id), err |-> NoError]

\* The caller of the orchestrator reads config.role_arn or config.lambda_arn
\* while the orchestrator is not executing: before or after the constructor,
\* or after deploy() ended.
ReadConfigArn ==
    /\ hist = <<>>
    /\ orch.phase \in {"new", "init_failed", "constructed", "completed", "failed"}
    /\ \E prop \in {"role_arn", "lambda_arn"} :
         LET r == IF prop = "role_arn" THEN role_arn(config) ELSE lambda_arn(config)
         IN  hist' = <<[op |-> prop, kind |-> r.kind, value |-> r.value,
                        err |-> r.err, account |-> config.account_id,
                        phase |-> orch.phase]>>
    /\ UNCHANGED <<config, mgrs, remote, proc, orch, log, lastCall>>

(* Deployer._setup_budget_if_needed *)
setup_budget_if_needed ==
    /\ AtStep("Budget Setup")
    /\ IF ~config.enable_budget \/ config.local_test_enabled
       THEN StepReturns(Began, orch) /\ UNCHANGED proc
       ELSE StepCalls(Began, "budget:role", "ensure_budget_action_role")
    /\ UNCHANGED <<config, mgrs, remote, hist, lastCall>>

setup_budget_role_ensured ==
    /\ BackAt("budget:role")
    /\ IF proc.result.kind = "raise"
       THEN StepRaises(log, proc.result.err) /\ proc' = IdleProc
       ELSE StepCalls(log, "budget:policy", "attach_budget_action_policy")
    /\ UNCHANGED <<config, mgrs, remote, hist, lastCall>>

\* The call of setup_budget_enforcement reads self.config.budget_topic_name,
\* an attribute the configuration does not have.
setup_budget_policy_attached ==
    /\ BackAt("budget:policy")
    /\ StepRaises(log, IF proc.result.kind = "raise" THEN proc.result.err
                       ELSE PyError("AttributeError"))
    /\ proc' = IdleProc
    /\ UNCHANGED <<config, mgrs, remote, hist, lastCall>>

(* Deployer._build_package: self.builder.build() returns a path or raises *)
build_package ==
    /\ AtStep("Build Package")
    /\ \E built \in BOOLEAN :
         IF built THEN StepReturns(Began, [orch EXCEPT !.package_path = "built"])
         ELSE StepRaises(Began, PyError("FileNotFoundError"))
    /\ UNCHANGED <<config, mgrs, remote, proc, hist, lastCall>>

(* Deployer._run_local_test_if_enabled: LambdaPackageValidator is given    *)
(* three arguments and takes one.                                          *)
run_local_test_if_enabled ==
    /\ AtStep("Local Test")
    /\ IF ~config.local_test_enabled
       THEN StepReturns(Began, orch)
       ELSE StepRaises(Began, PyError("TypeError"))
    /\ UNCHANGED <<config, mgrs, remote, proc, hist, lastCall>>

(* Deployer._setup_iam_roles *)
setup_iam_roles ==
    /\ AtStep("IAM Setup")
    /\ StepCalls(Began, "iam:lambda", "ensure_lambda_role")
    /\ UNCHANGED <<config, mgrs, remote, hist, lastCall>>

setup_iam_lambda_role_ensured ==
    /\ BackAt("iam:lambda")
    /\ IF proc.result.kind = "raise"
       THEN StepRaises(log, proc.result.err) /\ proc' = IdleProc
       ELSE StepCalls(log, "iam:scheduler", "ensure_scheduler_role")
    /\ UNCHANGED <<config, mgrs, remote, hist, lastCall>>

setup_iam_scheduler_role_ensured ==
    /\ BackAt("iam:scheduler")
    /\ config.kind = "archive"
    /\ IF proc.result.kind = "raise"
       THEN StepRaises(log, proc.result.err)
       ELSE StepReturns(log, orch)
    /\ proc' = IdleProc
    /\ UNCHANGED <<config, mgrs, remote, hist, lastCall>>

(* ContainerDeployer._setup_iam_roles: after super()._setup_iam_roles(),   *)
(* _add_ecr_permissions calls iam_mgr.attach_inline_policy, a method       *)
(* IAMManager does not have.                                               *)
container_setup_iam_roles ==
    /\ BackAt("iam:scheduler")
    /\ config.kind = "container"
    /\ IF proc.result.kind = "raise"
       THEN StepRaises(log, proc.result.err)
       ELSE IF ~config.local_test_enabled /\ ~config.dry_run
       THEN StepRaises(log, PyError("AttributeError"))
       ELSE StepReturns(log, orch)
    /\ proc' = IdleProc
    /\ UNCHANGED <<config, mgrs, remote, hist, lastCall>>

(* Deployer._deploy_lambda *)
deploy_lambda ==
    /\ AtStep("Lambda Deployment")
    /\ IF role_arn(config).kind = "return"
       THEN StepCalls(Began, "lambda:deploy", "deploy_function")
       ELSE StepRaises(Began, PyError("ValueError")) /\ UNCHANGED proc
    /\ UNCHANGED <<config, mgrs, remote, hist, lastCall>>

deploy_lambda_deployed ==
    /\ BackAt("lambda:deploy")
    /\ IF proc.result.kind = "raise"
       THEN StepRaises(log, proc.result.err)
       ELSE StepReturns(log, orch)
    /\ proc' = IdleProc
    /\ UNCHANGED <<config, mgrs, remote, hist, lastCall>>

(* Deployer._setup_schedule *)
setup_schedule ==
    /\ AtStep("Schedule Setup")
    /\ IF lambda_arn(config).kind = "return"
       THEN StepCalls(Began, "schedule:ensure", "ensure_schedule")
       ELSE StepRaises(Began, PyError("ValueError")) /\ UNCHANGED proc
    /\ UNCHANGED <<config, mgrs, remote, hist, lastCall>>

setup_schedule_ensured ==
    /\ BackAt("schedule:ensure")
    /\ IF proc.result.kind = "raise"
       THEN StepRaises(log, proc.result.err)
       ELSE StepReturns(log, orch)
    /\ proc' = IdleProc
    /\ UNCHANGED <<config, mgrs, remote, hist, lastCall>>

(* ContainerDeployer._setup_ecr_repository *)
setup_ecr_repository ==
    /\ AtStep("ECR Repository Setup")
    /\ StepCalls(Began, "ecr:ensure", "ensure_repository")
    /\ UNCHANGED <<config, mgrs, remote, hist, lastCall>>

setup_ecr_repository_ensured ==
    /\ BackAt("ecr:ensure")
    /\ IF proc.result.kind = "raise"
       THEN StepRaises(log, proc.result.err) /\ UNCHANGED config
       ELSE /\ StepReturns(log, orch)
            /\ config' = [config EXCEPT !.ecr_repository_uri = proc.result.value]
    /\ proc' = IdleProc
    /\ UNCHANGED <<mgrs, remote, hist, lastCall>>

(* ContainerDeployer._build_container *)
build_container ==
    /\ AtStep("Container Build")
    /\ StepCalls(Began, "build:auth", "get_authorization_token")
    /\ UNCHANGED <<config, mgrs, remote, hist, lastCall>>

\* ContainerBuilder.build_image: login, build and push; in dry-run mode the
\* three are skipped and it returns True.
build_container_authorized ==
    /\ BackAt("build:auth")
    /\ IF proc.result.kind = "raise"
       THEN StepRaises(log, proc.result.err)
       ELSE \E success \in (IF config.dry_run THEN {TRUE} ELSE BOOLEAN) :
              LET l == IF success /\ ~config.dry_run
                       THEN Append(log, Event("push", "docker push", "repo", 0))
                       ELSE log
              IN  IF ~success THEN StepRaises(l, PyError("RuntimeError"))
                  ELSE IF config.ecr_repository_uri = NoHandle
                  THEN StepRaises(l, PyError("ValueError"))
                  ELSE StepReturns(l, orch)
    /\ proc' = IdleProc
    /\ UNCHANGED <<config, mgrs, remote, hist, lastCall>>

(* ContainerDeployer._test_container_locally *)
test_container_locally ==
    /\ AtStep("Local Container Test")
    /\ \E success \in (IF config.dry_run THEN {TRUE} ELSE BOOLEAN) :
         IF success THEN StepReturns(Began, orch)
         ELSE StepRaises(Began, PyError("RuntimeError"))
    /\ UNCHANGED <<config, mgrs, remote, proc, hist, lastCall>>

(* ContainerDeployer._deploy_container *)
deploy_container ==
    /\ AtStep("Container Deployment")
    /\ IF role_arn(config).kind = "return" /\ config.ecr_repository_uri # NoHandle
       THEN StepCalls(Began, "container:deploy", "deploy_container_function")
       ELSE StepRaises(Began, PyError("ValueError")) /\ UNCHANGED proc
    /\ UNCHANGED <<config, mgrs, remote, hist, lastCall>>

\* "self.config.lambda_arn = function_arn": lambda_arn is a property
\* without a setter.
deploy_container_deployed ==
    /\ BackAt("container:deploy")
    /\ StepRaises(log, IF proc.result.kind = "raise" THEN proc.result.err
                       ELSE PyError("AttributeError"))
    /\ proc' = IdleProc
    /\ UNCHANGED <<config, mgrs, remote, hist, lastCall>>

\* deploy(): every step done; _show_deployment_summary prints the next
\* steps unless local-test or dry-run.
Complete ==
    /\ orch.phase = "running"
    /\ orch.sub = "none"
    /\ orch.idx > Len(orch.steps)
    /\ orch' = [orch EXCEPT !.phase = "completed"]
    /\ log' = log \o <<Event("completed", "deploy", "", 0)>>
                  \o (IF config.local_test_enabled \/ config.dry_run THEN <<>>
                      ELSE <<Event("summary", "next steps", "", 0)>>)
    /\ UNCHANGED <<config, mgrs, remote, proc, hist, lastCall>>

StepAction ==
    \/ setup_budget_if_needed
    \/ setup_budget_role_ensured
    \/ setup_budget_policy_attached
    \/ build_package
    \/ run_local_test_if_enabled
    \/ setup_iam_roles
    \/ setup_iam_lambda_role_ensured
    \/ setup_iam_scheduler_role_ensured
    \/ container_setup_iam_roles
    \/ deploy_lambda
    \/ deploy_lambda_deployed
    \/ setup_schedule
    \/ setup_schedule_ensured
    \/ setup_ecr_repository
    \/ setup_ecr_repository_ensured
    \/ build_container
    \/ build_container_authorized
    \/ test_container_locally
    \/ deploy_container
    \/ deploy_container_deployed

\* The orchestrator's own steps.
OrchestratorStep ==
    \/ Construct
    \/ DeployBegin
    \/ SkipStep
    \/ StepAction
    \/ Complete

\* The budget step fails before it reaches the budget manager, and no step
\* stores a parameter: the orchestrator runs these provisioner steps only.
NextDeploy ==
    \/ OrchestratorStep
    \/ ReadConfigArn
    \/ IamStepOfDeploy
    \/ EcrStep
    \/ SchedulerStep
    \/ LambdaStepOfDeploy

SpecDeploy == InitDeploy /\ [][NextDeploy]_vars

\* SpecTool: either of the two callers of the provisioners, the orchestrator
\* or a client of the managers.
InitTool == InitDeploy \/ InitProvision

NextTool == OrchestratorStep \/ Invoke \/ InvokeAgain \/ ClientReturn \/ ProvisionerStep

SpecTool == InitTool /\ [][NextTool]_vars

----------------------------------------------------------------------------
(* Claims about the gateway, checked under SpecGateway.                    *)

\* The call lastCall holds reached the remote API (not a dry-run call).
Called == lastCall.api # "none" /\ ~lastCall.dry_run /\ lastCall.max_attempts >= 1

\* The error classes the claims name as non-retryable: permission denied,
\* validation failure, bad parameter.
ClaimNonRetryable == {"AccessDenied", "ValidationError", "InvalidParameter"}

RetryableFailure(o) == o # "ok" /\ o \notin ClaimNonRetryable

\* The time slept between attempt k-1 and attempt k of the last call.
RECURSIVE SleptBefore(_, _)
SleptBefore(sleeps, k) ==
    IF sleeps = <<>> THEN 0
    ELSE (IF Head(sleeps).before = k THEN Head(sleeps).secs ELSE 0)
         + SleptBefore(Tail(sleeps), k)

\* C4: a gateway call with max_attempts = N >= 1 makes at most N requests,
\* whatever the remote answers.
C4_AtMostMaxAttempts ==
    (lastCall.api # "none" /\ lastCall.max_attempts >= 1)
        => lastCall.res.attempts <= lastCall.max_attempts

\* C4 witness: a call that used its last allowed attempt, and succeeded on it.
C4_Witness ==
    /\ Called
    /\ lastCall.max_attempts = 2
    /\ lastCall.res.attempts = 2
    /\ lastCall.res.kind = "return"

\* C5 (as claimed): before every attempt k >= 2 the gateway has slept
\* base_delay * 2^(k-2), whatever failure caused the retry.
C5_BackoffBeforeEveryRetry ==
    Called =>
        \A k \in 2..lastCall.res.attempts :
            SleptBefore(lastCall.res.sleeps, k) = lastCall.base_delay * (2 ^ (k - 2))

\* C6: an attempt that fails with a non-retryable error is the last one: the
\* call raises that error, makes no further attempt and sleeps no more; when
\* it is the first attempt the call made exactly one attempt and never slept.
C6_NonRetryableShortCircuits ==
    Called =>
        \A k \in 1..lastCall.res.attempts :
            lastCall.outs[k] \in ClaimNonRetryable =>
                /\ lastCall.res.attempts = k
                /\ lastCall.res.kind = "raise"
                /\ lastCall.res.err = [code |-> lastCall.outs[k], at |-> k]
                /\ \A i \in 1..Len(lastCall.res.sleeps) : lastCall.res.sleeps[i].before <= k
                /\ (k = 1 => lastCall.res.sleeps = <<>>)

\* C6 witness: permission denied at the first of three allowed attempts.
C6_Witness ==
    /\ Called
    /\ lastCall.max_attempts = 3
    /\ lastCall.outs[1] = "AccessDenied"
    /\ lastCall.res.kind = "raise"
    /\ lastCall.res.attempts = 1

\* C7: a call whose every attempt fails with a retryable error makes exactly
\* max_attempts attempts and raises the error of the last one; a call whose
\* first success is at attempt k returns that response after k attempts.
C7_ExhaustOrFirstSuccess ==
    Called =>
        LET n == lastCall.max_attempts
            o == lastCall.outs
            r == lastCall.res
        IN  /\ (\A k \in 1..n : RetryableFailure(o[k])) =>
                  /\ r.attempts = n
                  /\ r.kind = "raise"
                  /\ r.err = [code |-> o[n], at |-> n]
            /\ \A k \in 1..n :
                  (o[k] = "ok" /\ \A j \in 1..(k - 1) : RetryableFailure(o[j])) =>
                      /\ r.attempts = k
                      /\ r.kind = "return"
                      /\ r.value = [tag |-> "response", at |-> k]

\* C7 witness: three attempts, all failing, the last error unlike the first.
C7_Witness ==
    /\ Called
    /\ lastCall.max_attempts = 3
    /\ lastCall.res.attempts = 3
    /\ lastCall.res.kind = "raise"
    /\ lastCall.res.err = [code |-> "Throttling", at |-> 3]
    /\ lastCall.outs[1] = OtherException

----------------------------------------------------------------------------
(* Claims about the provisioners, checked under SpecProvision.             *)

EnsureOps ==
    {"ensure_lambda_role", "ensure_scheduler_role", "ensure_budget_action_role",
     "ensure_repository", "_ensure_sns_topic"}

\* The resource an ensure operation is about.
Ensured(op) ==
    CASE op = "ensure_lambda_role" -> "role_lambda"
      [] op = "ensure_scheduler_role" -> "role_sched"
      [] op = "ensure_budget_action_role" -> "role_budget"
      [] op = "ensure_repository" -> "repo"
      [] OTHER -> "topic"

\* C8: an ensure operation invoked twice in a row with the same arguments,
\* no request of either answered with a failure: the second invocation
\* returns the handle the first returned and issues no creation call, and
\* the first issued exactly one when the resource did not exist (outside
\* dry-run) and none otherwise: one creation call in total.
C8_EnsureTwiceCreatesOnce ==
    \A i \in 1..(Len(hist) - 1) :
        LET a == hist[i]
            b == hist[i + 1]
        IN  (a.op \in EnsureOps /\ a.kind = "return" /\ ~a.faulted /\ ~b.faulted) =>
                /\ b.kind = "return"
                /\ b.value = a.value
                /\ b.created = 0
                /\ a.created = (IF ~a.dry_run /\ Ensured(a.op) \notin a.pre THEN 1 ELSE 0)

\* C8 witness: the registry was ensured twice in an account that had none;
\* the first invocation created it, the second found it.
C8_Witness ==
    /\ Len(hist) = 2
    /\ hist[1].op = "ensure_repository" /\ hist[2].op = "ensure_repository"
    /\ ~hist[1].faulted /\ ~hist[2].faulted
    /\ hist[1].kind = "return" /\ hist[2].kind = "return"
    /\ hist[1].created = 1 /\ hist[2].created = 0
    /\ hist[1].value = hist[2].value

----------------------------------------------------------------------------
(* Claims about the orchestrator, checked under SpecDeploy.                *)

StepEvents ==
    SelectSeq(log, LAMBDA e : e.ev \in {"step_begin", "step_end", "step_skip", "step_raise"})

CountOf(es, kinds) == Len(SelectSeq(es, LAMBDA e : e.ev \in kinds))

\* C2: step actions are invoked in the order of the step list: the k-th
\* action invoked is that of a later step than the one before, every step
\* before it has returned or been skipped, the step event right before
\* it is a return or a skip, and the actions begun exceed the actions ended
\* by one at most: no two step actions execute at once.
C2_StepsInListOrderOneAtATime ==
    /\ \A i \in DOMAIN StepEvents :
         StepEvents[i].ev = "step_begin" =>
            /\ StepEvents[i].n \in DOMAIN orch.steps
            /\ StepEvents[i].what = orch.steps[StepEvents[i].n]
            /\ i > 1 => StepEvents[i - 1].ev \in {"step_end", "step_skip"}
            /\ \A k \in 1..(StepEvents[i].n - 1) :
                 \E j \in 1..(i - 1) :
                    /\ StepEvents[j].n = k
                    /\ StepEvents[j].ev \in {"step_end", "step_skip"}
            /\ \A j \in 1..(i - 1) : StepEvents[j].n < StepEvents[i].n
    /\ CountOf(StepEvents, {"step_begin"})
         - CountOf(StepEvents, {"step_end", "step_raise"}) \in {0, 1}
    /\ (orch.sub # "none") =
         (CountOf(StepEvents, {"step_begin"})
            - CountOf(StepEvents, {"step_end", "step_raise"}) = 1)

\* C2 witness: a run of the archive deployer that skipped a step, executed
\* three steps to their end and is executing a fourth.
C2_Witness ==
    /\ config.kind = "archive"
    /\ CountOf(StepEvents, {"step_skip"}) >= 1
    /\ CountOf(StepEvents, {"step_end"}) = 3
    /\ orch.sub # "none"

\* C3: once a step action has raised, no step action is invoked any more,
\* the failed step's action was invoked once only, the run is failed with
\* the error the step raised, and Completed is never reported.
C3_StepErrorAbortsRun ==
    \A i \in DOMAIN log :
        log[i].ev = "step_raise" =>
            /\ orch.phase = "failed"
            /\ orch.err.code = log[i].res
            /\ \A j \in (i + 1)..Len(log) :
                 log[j].ev \notin {"step_begin", "step_skip", "completed", "call", "direct"}
            /\ \E j \in (i + 1)..Len(log) :
                 log[j].ev = "deploy_raise" /\ log[j].res = log[i].res
            /\ Cardinality({j \in DOMAIN log :
                   log[j].ev = "step_begin" /\ log[j].n = log[i].n}) = 1
            /\ \A j \in DOMAIN log : log[j].ev # "completed"

\* C3 witness: the function deployment step failed on a permission error
\* of the remote API, with a later step still in the list.
C3_Witness ==
    /\ orch.phase = "failed"
    /\ orch.err.code = "AccessDenied"
    /\ orch.idx < Len(orch.steps)
    /\ \E i \in DOMAIN log :
         log[i].ev = "step_raise" /\ log[i].what = "Lambda Deployment"

DeploymentSteps == {"IAM Setup", "Lambda Deployment", "Container Deployment", "Schedule Setup"}

\* C9: in local-test-only mode the actions of the identity setup, function
\* deployment and schedule setup steps are never invoked, whatever the
\* dry-run and budget flags.
C9_LocalTestRunsNoDeploymentStep ==
    config.local_test_enabled =>
        \A i \in DOMAIN log :
            log[i].ev = "step_begin" => log[i].what \notin DeploymentSteps

\* C9 witness: a local-test-only run that went through its whole step list.
C9_Witness ==
    /\ config.local_test_enabled
    /\ orch.phase = "completed"
    /\ CountOf(log, {"step_begin"}) >= 3

BudgetSteps == {"Budget Setup"}

StepNames(steps) == {steps[i] : i \in DOMAIN steps}

\* C10 (as claimed): with budget enforcement disabled the assembled step
\* list holds no budget step, in the archive and in the container deployer.
C10_NoBudgetStepInList ==
    (orch.phase = "running" /\ ~config.enable_budget) =>
        StepNames(orch.steps) \cap BudgetSteps = {}

\* C10 (amended): with budget enforcement disabled the container deployer's
\* step list holds no budget step; the archive deployer's list holds one,
\* and the budget step's action is never invoked.
C10_BudgetStepNeverRunsWhenDisabled ==
    (orch.phase \in {"running", "completed", "failed"} /\ ~config.enable_budget) =>
        /\ config.kind = "container" => StepNames(orch.steps) \cap BudgetSteps = {}
        /\ config.kind = "archive" => "Budget Setup" \in StepNames(orch.steps)
        /\ \A i \in DOMAIN log :
             log[i].ev = "step_begin" => log[i].what \notin BudgetSteps

\* C10 witness: an archive run with enforcement disabled has skipped its
\* budget step and gone on to execute another step.
C10_Witness ==
    /\ ~config.enable_budget
    /\ config.kind = "archive"
    /\ \E i \in DOMAIN log : log[i].ev = "step_skip" /\ log[i].what = "Budget Setup"
    /\ \E i \in DOMAIN log : log[i].ev = "step_end"

----------------------------------------------------------------------------
(* Claims about both callers, checked under SpecTool.                      *)

\* C1: in dry-run mode no mutating request reaches the remote API, through
\* the gateway or around it, in any run of either deployer and any sequence
\* of provisioner operations.
C1_DryRunIssuesNoMutation ==
    config.dry_run =>
        \A i \in DOMAIN log :
            log[i].ev \in {"call", "direct", "push"} => log[i].what \notin MutatingApis

\* C1 witness: a dry-run deployment completed, its last gateway call a
\* mutating operation that was intercepted.
C1_Witness ==
    /\ config.dry_run
    /\ orch.phase = "completed"
    /\ lastCall.api \in MutatingApis
    /\ lastCall.dry_run
    /\ lastCall.res.attempts = 0

----------------------------------------------------------------------------
(* Claims about the skip predicate, checked under SpecDeploy.              *)

\* The event deploy()'s loop logs for the step it is at, in a step of the
\* run that leaves a step decided (skipped or begun).
DecisionEvent == log'[Len(log) + 1]

\* C11: when deploy()'s loop decides a step, the budget step is skipped
\* exactly when enforcement is disabled or local-test mode is on, the
\* local-test step exactly when local-test mode is not requested, the
\* decision is the value of the predicate on the step name and the
\* configuration, and a skip changes nothing but the position of the loop.
C11_SkipDecisionIsPure ==
    [][(AtAnyStep /\ Len(log') > Len(log)) =>
          /\ DecisionEvent.ev \in {"step_skip", "step_begin"}
          /\ (DecisionEvent.ev = "step_skip") = should_skip_step(CurrentStep, config)
          /\ CurrentStep = "Budget Setup" =>
                ((DecisionEvent.ev = "step_skip") =
                     (~config.enable_budget \/ config.local_test_enabled))
          /\ CurrentStep = "Local Test" =>
                ((DecisionEvent.ev = "step_skip") = ~config.local_test_enabled)
          /\ DecisionEvent.ev = "step_skip" =>
                /\ UNCHANGED <<config, mgrs, remote, proc, hist, lastCall>>
                /\ orch' = [orch EXCEPT !.idx = @ + 1]
                /\ Len(log') = Len(log) + 1
      ]_vars

\* C11 witness: a run with enforcement off and local-test mode off skipped
\* the budget step, began the build step and skipped the local-test step.
C11_Witness ==
    /\ ~config.enable_budget /\ ~config.local_test_enabled
    /\ \E i, j, k \in DOMAIN log :
         /\ i < j /\ j < k
         /\ log[i].ev = "step_skip" /\ log[i].what = "Budget Setup"
         /\ log[j].ev = "step_begin" /\ log[j].what = "Build Package"
         /\ log[k].ev = "step_skip" /\ log[k].what = "Local Test"

----------------------------------------------------------------------------
(* Claims about initialization, checked under SpecDeploy.                  *)

\* The identity resolutions the run made.
Resolutions == SelectSeq(log, LAMBDA e : e.ev = "identity")

\* C12: identity is resolved at most once in a run, and when the resolution
\* failed the run has failed in the constructor with an error, that one
\* attempt is all it did: no step was decided, no step action ran, no
\* manager was built and no provisioner request was issued.
C12_UnresolvedIdentityFailsInit ==
    /\ Len(Resolutions) <= 1
    /\ (\E i \in DOMAIN log : log[i].ev = "identity" /\ log[i].res = NoAccount) =>
          /\ orch.phase = "init_failed"
          /\ orch.err # NoError
          /\ Len(log) = 1
          /\ mgrs = NoManagers
          /\ proc = IdleProc
          /\ lastCall = NoCall
          /\ config.account_id = UnsetAccount

\* C12 witness: the one resolution of the run failed.
C12_Witness ==
    /\ orch.phase = "init_failed"
    /\ Len(Resolutions) = 1
    /\ Resolutions[1].res = NoAccount

\* The reads of config.role_arn and config.lambda_arn the caller made.
ArnReads == {i \in DOMAIN hist : hist[i].op \in {"role_arn", "lambda_arn"}}

\* C13: config.role_arn and config.lambda_arn raise an error whenever they
\* are read while the account identifier is unset, and return an identifier,
\* the one of the resolved account, only after identity resolution; the
\* steps that read them run with the account resolved.
C13_ArnNeedsAccount ==
    /\ \A i \in ArnReads :
          /\ hist[i].account = UnsetAccount =>
                hist[i].kind = "raise" /\ hist[i].err # NoError
          /\ hist[i].kind = "return" =>
                /\ hist[i].phase \notin {"new", "init_failed"}
                /\ hist[i].value.account = RealAccount
                /\ \E k \in DOMAIN log :
                      log[k].ev = "identity" /\ log[k].res = RealAccount
    /\ orch.phase = "running" => HasAccount(config)

\* C13 witness: an identifier was read before the constructor resolved the
\* account, and the read raised.
C13_Witness ==
    \E i \in ArnReads :
        /\ hist[i].phase = "new"
        /\ hist[i].account = UnsetAccount
        /\ hist[i].kind = "raise"
        /\ orch.phase = "completed"

\* The run resolved the identity of the account.
IdentityResolved ==
    \E k \in DOMAIN log : log[k].ev = "identity" /\ log[k].res = RealAccount

\* No step was decided yet.
NoStepYet == \A k \in DOMAIN log : log[k].ev = "identity"

\* C14: config.account_id is unset until the identity is resolved; it is
\* written once, by the constructor, before deploy() decides any step, with
\* the account the resolution returned; from then on every step of the run
\* leaves it as it is.
C14_AccountWrittenOnce ==
    [][/\ (config.account_id = UnsetAccount) = ~IdentityResolved
       /\ (config'.account_id = UnsetAccount) = ~IdentityResolved'
       /\ config.account_id # UnsetAccount => config'.account_id = config.account_id
       /\ config'.account_id # config.account_id =>
             /\ orch.phase = "new" /\ orch'.phase = "constructed"
             /\ NoStepYet'
             /\ config'.account_id = RealAccount
       /\ orch'.phase \in {"constructed", "running", "completed", "failed"} =>
             config'.account_id = RealAccount
      ]_vars

\* C14 witness: a run that executed steps to its end holds the account the
\* constructor wrote.
C14_Witness ==
    /\ orch.phase = "completed"
    /\ config.account_id = RealAccount
    /\ \E k \in DOMAIN log : log[k].ev = "step_end"

----------------------------------------------------------------------------
(* Claims about the function deployment, checked under SpecProvision.      *)

\* The pairs the platform accepts, as the documentation of the limits
\* states them.
InLimits(timeout, memory_size) ==
    /\ 1 <= timeout /\ timeout <= 900
    /\ 128 <= memory_size /\ memory_size <= 10240
    /\ memory_size % 64 = 0

\* C15: deploy_function and deploy_container_function, given a deployable
\* package and a timeout or memory size outside the limits, raise an error
\* and issued no request to the remote API, the existence check included.
C15_RejectedBeforeAnyRemoteCall ==
    \A i \in DOMAIN hist :
        (/\ hist[i].op \in FunctionOps
         /\ hist[i].pkg \in {"ok", "none"}
         /\ ~InLimits(hist[i].timeout, hist[i].memory_size)) =>
            /\ hist[i].kind = "raise"
            /\ hist[i].requests = 0

\* C16: _validate_lambda_parameters returns for a pair exactly when
\* 1 <= timeout <= 900, 128 <= memory <= 10240 and memory is a multiple of
\* 64, and raises an error for every other pair; either way it issued no
\* request to the remote API and did not sleep to retry.
C16_ValidatesExactlyTheLimits ==
    \A i \in DOMAIN hist :
        hist[i].op = "_validate_lambda_parameters" =>
            /\ (hist[i].kind = "return") = InLimits(hist[i].timeout, hist[i].memory_size)
            /\ hist[i].kind = "raise" => hist[i].err.code = "ValueError"
            /\ hist[i].kind \in {"return", "raise"}
            /\ hist[i].requests = 0
            /\ ~hist[i].slept
            /\ lastCall = NoCall

\* C16 witness: a memory size inside the range that is no multiple of 64
\* was rejected, with a timeout at the upper bound of its range.
C16_Witness ==
    \E i \in DOMAIN hist :
        /\ hist[i].op = "_validate_lambda_parameters"
        /\ hist[i].timeout = 900 /\ hist[i].memory_size = 130
        /\ hist[i].kind = "raise"

----------------------------------------------------------------------------
(* Claims about the existence check, checked under SpecGateway.            *)

\* The answer to the last request the gateway call made.
LastAnswer == lastCall.outs[lastCall.res.attempts]

\* C17: outside dry-run, resource_exists returns True when its check call
\* ended with a success, returns False when it ended with NoSuchEntity,
\* ResourceNotFoundException or NotFoundException, and raises the error the
\* check call ended with in every other case; the requests it issued are
\* requests of the check operation it was given, none of them mutating.
C17_ResourceExistsClassifies ==
    \A i \in DOMAIN hist :
        (hist[i].op = "resource_exists" /\ ~lastCall.dry_run) =>
            /\ lastCall.res.attempts >= 1
            /\ LastAnswer = "ok" => (hist[i].kind = "return" /\ hist[i].exists)
            /\ LastAnswer \in {"NoSuchEntity", "ResourceNotFoundException",
                               "NotFoundException"} =>
                  (hist[i].kind = "return" /\ ~hist[i].exists)
            /\ LastAnswer \notin {"ok", "NoSuchEntity", "ResourceNotFoundException",
                                  "NotFoundException"} =>
                  (hist[i].kind = "raise" /\ hist[i].err.code = LastAnswer)
            /\ \A k \in DOMAIN log :
                  /\ log[k].ev = "call"
                  /\ log[k].what = hist[i].check
                  /\ log[k].what \notin MutatingApis

\* C17 witness: each of the three outcomes happened to a check outside
\* dry-run; this one found the budget service's not-found code after a
\* throttled request.
C17_Witness ==
    /\ Len(hist) = 1 /\ hist[1].op = "resource_exists"
    /\ ~lastCall.dry_run
    /\ lastCall.outs[1] = "Throttling"
    /\ LastAnswer = "NotFoundException"
    /\ hist[1].kind = "return" /\ ~hist[1].exists

----------------------------------------------------------------------------
(* End-to-end claims, checked under SpecDeploy.                            *)

\* The positions of the log at which event ev of what happened.
Positions(ev, what) == {k \in DOMAIN log : log[k].ev = ev /\ log[k].what = what}

\* Every event ev1 of what1 is followed by an event ev2 of what2.
Precedes(ev1, what1, ev2, what2) ==
    /\ Positions(ev1, what1) # {}
    /\ Positions(ev2, what2) # {}
    /\ \A a \in Positions(ev1, what1), b \in Positions(ev2, what2) : a < b

\* The errors a run ends with because the environment failed it: a remote
\* request that failed, a function that did not become ready in time, an
\* artifact that could not be built.
EnvironmentFailures ==
    ClientErrorCodes \cup {OtherException, "TimeoutError", "FileNotFoundError"}

\* The function did not exist when the run began: it does not exist now, or
\* the run created it.
FunctionWasAbsent ==
    "function" \notin remote.reg \/ Positions("call", "create_function") # {}

\* The run of deploy() is over.
RunOver == orch.phase \in {"completed", "failed"}

\* C18: an archive deployment outside dry-run and local-test mode, with
\* valid limits, into an account where the function did not exist, that the
\* environment did not fail, ends Completed: it resolved the identity, built
\* the artifact, ensured the execution role, created the function and left
\* it active, created the schedule, in that order, and emitted the
\* next-steps summary.
C18_ArchiveEndToEnd ==
    (/\ RunOver
     /\ config.kind = "archive" /\ ~config.dry_run /\ ~config.local_test_enabled
     /\ validate_lambda_parameters(config.timeout, config.memory_size)
     /\ FunctionWasAbsent
     /\ remote.fn_state \in {"none", "Active"}
     /\ orch.err.code \notin EnvironmentFailures) =>
        /\ orch.phase = "completed"
        /\ Precedes("identity", "get_caller_identity", "step_begin", "Build Package")
        /\ Precedes("step_end", "Build Package", "step_begin", "IAM Setup")
        /\ Precedes("step_end", "IAM Setup", "call", "create_function")
        /\ Precedes("call", "create_function", "call", "create_schedule")
        /\ Precedes("call", "create_schedule", "completed", "deploy")
        /\ Precedes("completed", "deploy", "summary", "next steps")
        /\ remote.fn_state = "Active"
        /\ {"role_lambda", "function", "schedule"} \subseteq remote.reg

\* C19: a dry-run deployment outside local-test mode, with valid limits,
\* into an account where the function exists, that the environment did not
\* fail, ends Completed with no error for the caller: no request of any step
\* reached the remote API, the remote account is as it was, and the
\* next-steps summary was not emitted.
C19_DryRunEndToEnd ==
    (/\ RunOver
     /\ config.dry_run /\ ~config.local_test_enabled
     /\ validate_lambda_parameters(config.timeout, config.memory_size)
     /\ "function" \in remote.reg
     /\ orch.err.code \notin EnvironmentFailures) =>
        /\ orch.phase = "completed"
        /\ orch.err = NoError
        /\ \A k \in DOMAIN log : log[k].ev \notin {"call", "direct", "summary"}
        /\ remote = RemoteWith(Resources \ {"budget_notif"})

----------------------------------------------------------------------------
(* Claims about dry-run results, checked under SpecProvision.              *)

\* The operations that return a handle to a remote resource.
HandleOps ==
    {"ensure_lambda_role", "ensure_scheduler_role", "ensure_budget_action_role",
     "ensure_repository", "deploy_function", "deploy_container_function"}

\* C20: in dry-run mode every operation that returns a handle returns an
\* identifier that embeds the one sentinel account number, the same for
\* every operation, whatever the remote account holds and whatever the real
\* account is.
C20_DryRunHandlesEmbedOneSentinel ==
    \A i \in DOMAIN hist :
        (hist[i].op \in HandleOps /\ hist[i].dry_run /\ hist[i].kind = "return") =>
            hist[i].value.account = SentinelAccount

----------------------------------------------------------------------------
(* Claims about the provisioners and the gateway, checked under            *)
(* SpecProvision.                                                          *)

\* C21: every request a provisioner makes to the remote API is made by the
\* gateway (safe_call, safe_call_with_retry): none is made on a service
\* client directly, and so none is made in dry-run mode.
C21_EveryRequestThroughGateway ==
    \A k \in DOMAIN log :
        /\ log[k].ev # "direct"
        /\ log[k].ev = "call" => ~config.dry_run

----------------------------------------------------------------------------
(* Claims about deploy(), checked under SpecDeploy.                        *)

CleanupEvents == {k \in DOMAIN log : log[k].ev = "cleanup"}

\* C22: a deploy() that failed at a step has called the cleanup hook exactly
\* once, after the step raised and before deploy() raised to its caller; the
\* error the caller receives is the one the step raised; in dry-run or
\* local-test mode the hook did nothing.  A deploy() that has not failed has
\* not called the hook.
C22_CleanupOnceBetweenFailureAndRaise ==
    /\ orch.phase # "failed" => CleanupEvents = {}
    /\ orch.phase = "failed" =>
         /\ Cardinality(CleanupEvents) = 1
         /\ \A k \in CleanupEvents :
              /\ k = Len(log) - 1
              /\ log[k - 1].ev = "step_raise"
              /\ log[k + 1].ev = "deploy_raise"
              /\ log[k + 1].res = log[k - 1].res
              /\ orch.err.code = log[k - 1].res
              /\ \A j \in DOMAIN log :
                   log[j].ev \in {"step_raise", "deploy_raise"} => j \in {k - 1, k + 1}
              /\ (config.dry_run \/ config.local_test_enabled) => log[k].res = ""

C22_Witness ==
    /\ orch.phase = "failed"
    /\ config.dry_run
    /\ \E k \in CleanupEvents : log[k].res = "" /\ log[k - 1].res = "AttributeError"

\* C23: the dry-run flag is fixed for the run: no step changes the
\* configuration's flag or a constructed manager's flag, a constructed
\* manager stays constructed, and in every state every constructed manager's
\* flag equals the configuration's.
C23_DryRunFlagIsFixed ==
    /\ [](\A m \in ManagerNames : mgrs[m].built => mgrs[m].dry_run = config.dry_run)
    /\ [][/\ config'.dry_run = config.dry_run
          /\ \A m \in ManagerNames :
               mgrs[m].built => mgrs'[m].built /\ mgrs'[m].dry_run = mgrs[m].dry_run]_vars

C23_Witness ==
    /\ config.dry_run
    /\ orch.phase = "completed"
    /\ \A m \in {"lambda", "iam", "scheduler", "budget"} :
         mgrs[m].built /\ mgrs[m].dry_run

\* The requests and pushes of the run that change something remotely.
RemoteMutations ==
    {k \in DOMAIN log :
        \/ log[k].ev \in {"call", "direct"} /\ log[k].what \in MutatingApis
        \/ log[k].ev = "push"}

\* C24: in local-test mode outside dry-run, a run of either deployer makes
\* no mutating request and pushes no image, and begins none of the steps
\* that provision or deploy: it stops after the artifact is validated.
C24_LocalTestMutatesNothing ==
    (config.local_test_enabled /\ ~config.dry_run) =>
        /\ RemoteMutations = {}
        /\ \A k \in DOMAIN log :
             log[k].ev = "step_begin" =>
                 log[k].what \notin {"Budget Setup", "IAM Setup", "Lambda Deployment",
                                     "Container Deployment", "Schedule Setup"}

\* The step appends the request api to the log.
Issues(api) ==
    \E k \in (Len(log) + 1)..Len(log') :
        log'[k].ev \in {"call", "direct"} /\ log'[k].what = api

\* The requests api of the invocation in progress, as positions of the log.
IssuedInInvocation(api) ==
    {k \in (proc.mark + 1)..Len(log) : log[k].ev = "call" /\ log[k].what = api}

\* C25: on the update path of a function deployment, archive or container,
\* the wait for the code update is entered only when update_function_code
\* has returned, and update_function_configuration is requested only when
\* update_function_code was requested before it in the invocation and the
\* last poll of the wait was answered and observed Successful; an
\* invocation that ended with the code update or the wait failing has
\* requested no configuration update.
C25_ConfigurationAfterSuccessfulCodeUpdate ==
    /\ [][(proc.op \in FunctionOps /\ Issues("update_function_configuration")) =>
             /\ IssuedInInvocation("update_function_code") # {}
             /\ lastCall.api = "get_function"
             /\ lastCall.res.kind = "return"
             /\ proc.seen = "Successful"
             /\ remote.fn_update = "Successful"]_vars
    /\ [][(proc.op \in FunctionOps /\ proc'.pc = "_wait_for_function_updated"
           /\ proc.pc # "_wait_for_function_updated") =>
             /\ lastCall'.api = "update_function_code"
             /\ lastCall'.res.kind = "return"]_vars
    /\ [](proc.op \in FunctionOps =>
            /\ \A k \in IssuedInInvocation("update_function_configuration") :
                 \E j \in IssuedInInvocation("update_function_code") : j < k
            /\ (/\ proc.pc = "done"
                /\ proc.result.kind = "raise"
                /\ lastCall.api \in {"update_function_code", "get_function"})
               => IssuedInInvocation("update_function_configuration") = {})

C25_Witness ==
    /\ ~config.dry_run
    /\ proc.op \in FunctionOps
    /\ proc.pc = "done"
    /\ proc.result.kind = "return"
    /\ proc.seen = "Successful"
    /\ IssuedInInvocation("update_function_configuration") # {}

\* The step is the existence check of a function deployment.
ExistenceChecked ==
    /\ proc.op \in FunctionOps
    /\ proc.pc = proc.op
    /\ proc'.pc # proc.pc
    /\ lastCall'.api = "get_function"

\* What the last gateway call, an existence check, was answered.
AnsweredFound(c) == c.api = "get_function" /\ c.res.kind = "return"
AnsweredAbsent(c) ==
    /\ c.api = "get_function"
    /\ c.res.kind = "raise"
    /\ c.res.err.code \in NotFoundCodes

\* C26: outside dry-run, an invocation of deploy_function or
\* deploy_container_function requests create_function exactly when its
\* existence check was answered that no function exists, requests
\* update_function_code exactly when it was answered that one exists, and
\* never requests both.
C26_CreateXorUpdateByExistence ==
    /\ [][(proc.op \in FunctionOps /\ Issues("create_function")) =>
             AnsweredAbsent(lastCall)]_vars
    /\ [][(proc.op \in FunctionOps /\ Issues("update_function_code")) =>
             AnsweredFound(lastCall)]_vars
    /\ [](proc.op \in FunctionOps =>
             \/ IssuedInInvocation("create_function") = {}
             \/ IssuedInInvocation("update_function_code") = {})
    /\ [][(ExistenceChecked /\ ~config.dry_run) =>
             /\ AnsweredAbsent(lastCall') =>
                  proc'.pc \in {"_create_function", "_create_container_function"}
             /\ AnsweredFound(lastCall') =>
                  proc'.pc \in {"_update_function", "_update_container_function"}]_vars
    /\ [][(proc.pc \in {"_create_function", "_create_container_function"}
           /\ ~config.dry_run) => Issues("create_function")]_vars
    /\ [][(proc.pc \in {"_update_function", "_update_container_function"}
           /\ ~config.dry_run) => Issues("update_function_code")]_vars

\* The step is taken by a readiness wait.
InWait == proc.pc \in WaitOps /\ proc' # proc

ReadyValue == IF proc.pc = "_wait_for_function_active" THEN "Active" ELSE "Successful"

\* The step ends the wait with an error.
WaitFails == proc'.pc = "done" /\ proc'.result.kind = "raise"

\* C27: outside dry-run, a poll of a readiness wait that observes the state
\* Failed ends the wait with an error, the last of max_attempts polls ends
\* the wait, and the wait ends without an error only on a poll that observed
\* the ready state; in dry-run mode the wait returns without an error and
\* without a poll.
C27_WaitEndsOnFailedOrTimeout ==
    /\ [][(InWait /\ ~config.dry_run /\ proc'.seen = "Failed") => WaitFails]_vars
    /\ [][(InWait /\ ~config.dry_run /\ proc.polls = proc.max_polls - 1) =>
             proc'.pc \notin WaitOps]_vars
    /\ [][(InWait /\ ~config.dry_run /\ proc'.pc \notin WaitOps /\ ~WaitFails) =>
             /\ lastCall'.api = "get_function"
             /\ lastCall'.res.kind = "return"
             /\ proc'.seen = ReadyValue]_vars
    /\ [][(InWait /\ config.dry_run) =>
             /\ proc'.pc \notin WaitOps
             /\ ~WaitFails
             /\ UNCHANGED <<lastCall, log, remote>>]_vars

\* The existence checks of the provisioners of roles, schedules, budgets
\* and registries.
ExistenceApis == {"get_role", "get_schedule", "describe_budget", "describe_repositories"}

\* The step made the existence check api and it failed with an error that
\* does not say the resource is absent.
CheckFailed(api) ==
    /\ Issues(api)
    /\ lastCall'.api = api
    /\ lastCall'.res.kind = "raise"
    /\ lastCall'.res.err.code \notin NotFoundCodes \cup {NotFoundCodeOf(api)}

\* C28: in the provisioners of roles, schedules, budgets and registries, an
\* existence check that failed with an error other than not-found ends the
\* operation with that error: the operation does not go on as if the
\* resource were absent, and requests no creation.
C28_FailedCheckAborts ==
    [][\A api \in ExistenceApis :
          CheckFailed(api) =>
              /\ proc'.pc = "done"
              /\ proc'.result.kind = "raise"
              /\ proc'.result.err.code = lastCall'.res.err.code]_vars

----------------------------------------------------------------------------
(* Claims about the identity and budget provisioners as deploy() drives    *)
(* them, checked under SpecDeploy and SpecProvision.                       *)

IdentityMutations == {"create_role", "attach_role_policy", "put_role_policy"}

\* The last gateway call was the existence check of a role, answered that
\* the role does not exist.
RoleReportedAbsent ==
    /\ lastCall.api = "get_role"
    /\ lastCall.res.kind = "raise"
    /\ lastCall.res.err.code \in NotFoundCodes

\* The last gateway call created a role.
RoleJustCreated == lastCall.api = "create_role" /\ lastCall.res.kind = "return"

\* C29: in a run of deploy(), create_role is requested only right after an
\* existence check that reported the role absent, and attach_role_policy
\* and put_role_policy only right after the creation of the role: for a
\* role that exists no mutating identity request is made.
C29_IdentityMutatesOnlyWhenCreating ==
    [][/\ Issues("create_role") => RoleReportedAbsent
       /\ \A api \in IdentityMutations \ {"create_role"} :
            Issues(api) => RoleJustCreated]_vars

\* C30: when setup_budget_enforcement has returned outside dry-run, the
\* budget exists and has its notification thresholds (80% and 100%)
\* attached, whether the operation created the budget or updated it.
C30_BudgetHasNotifications ==
    (/\ proc.op = "setup_budget_enforcement"
     /\ proc.pc = "done"
     /\ proc.result.kind = "return"
     /\ ~config.dry_run) =>
        {"budget", "budget_notif"} \subseteq remote.reg

----------------------------------------------------------------------------
(* Claims about the order of the steps, checked under SpecDeploy.          *)

\* The step appends the event that the step step_name returned.
StepEnds(step_name) ==
    \E k \in (Len(log) + 1)..Len(log') :
        log'[k].ev = "step_end" /\ log'[k].what = step_name

\* C31: in a run of deploy() with the default step list, archive or
\* container, every create_function and update_function_code request comes
\* after the step "IAM Setup" returned in the run, that step goes on from
\* ensure_lambda_role only when it returned the role's handle, and returns
\* only from there.
C31_FunctionAfterExecutionRole ==
    /\ [](\A k \in DOMAIN log :
            (log[k].ev = "call" /\ log[k].what \in {"create_function", "update_function_code"})
            => \E j \in 1..(k - 1) : log[j].ev = "step_end" /\ log[j].what = "IAM Setup")
    /\ [][StepEnds("IAM Setup") =>
            orch.sub = "iam:scheduler" /\ proc.result.kind = "return"]_vars
    /\ [][(orch'.sub = "iam:scheduler" /\ orch.sub # "iam:scheduler") =>
            /\ orch.sub = "iam:lambda"
            /\ proc.op = "ensure_lambda_role"
            /\ proc.pc = "done"
            /\ proc.result.kind = "return"
            /\ proc.result.value = RoleArn(config.account_id, "role_lambda")]_vars

C31_Witness ==
    \E k \in DOMAIN log :
        /\ log[k].ev = "call" /\ log[k].what = "create_function"
        /\ \E j \in 1..(k - 1) : log[j].ev = "step_end" /\ log[j].what = "IAM Setup"
        /\ \E j \in 1..(k - 1) : log[j].ev = "call" /\ log[j].what = "create_role"

----------------------------------------------------------------------------
(* Claims about the identity and schedule provisioners, checked under      *)
(* SpecProvision.                                                          *)

RoleEnsureOps == {"ensure_lambda_role", "ensure_scheduler_role", "ensure_budget_action_role"}

\* The events of the invocation in progress, as positions of the log.
InvocationEvents == (proc.mark + 1)..Len(log)

\* The positions at which the invocation in progress created a role.
RoleCreations ==
    {k \in InvocationEvents : log[k].ev = "call" /\ log[k].what = "create_role"}

\* The positions at which the invocation in progress slept a fixed delay.
FixedDelays == {k \in InvocationEvents : log[k].ev = "sleep" /\ log[k].n > 0}

\* The role ensure operation op has returned the handle.
RoleEnsureReturned(op) ==
    /\ proc.op = op
    /\ proc.pc = "done"
    /\ proc.result.kind = "return"

\* C32: a role ensure operation (execution role, scheduler role, budget
\* action role) that has returned outside dry-run after creating the role
\* slept a fixed delay after the creation; one that has returned in dry-run
\* mode, or without creating the role, did not sleep.
C32_CreatedRoleWaitsForPropagation ==
    \A op \in RoleEnsureOps :
        RoleEnsureReturned(op) =>
            IF ~config.dry_run /\ RoleCreations # {}
            THEN \E k \in RoleCreations, j \in FixedDelays : k < j
            ELSE FixedDelays = {}

\* The mutating schedule requests of the invocation in progress.
ScheduleMutations ==
    {k \in InvocationEvents :
        log[k].ev = "call" /\ log[k].what \in {"create_schedule", "update_schedule"}}

ScheduleEnsured ==
    /\ proc.op = "ensure_schedule"
    /\ proc.pc = "done"
    /\ proc.result.kind = "return"

\* The invocation made one mutating schedule request: update_schedule when
\* the schedule existed when it was invoked, create_schedule when not.
OneScheduleMutation ==
    /\ Cardinality(ScheduleMutations) = 1
    /\ \A k \in ScheduleMutations :
         log[k].what = IF "schedule" \in proc.pre THEN "update_schedule"
                       ELSE "create_schedule"

\* C33 as stated: every ensure_schedule that has returned made exactly one
\* mutating schedule request, update_schedule when the schedule existed and
\* create_schedule when it did not.
C33_OneScheduleMutationInEveryMode == ScheduleEnsured => OneScheduleMutation

\* C33: outside dry-run, every ensure_schedule that has returned made
\* exactly one mutating schedule request, update_schedule when the schedule
\* existed and create_schedule when it did not, never both; in dry-run mode
\* it made none.
C33_CreateOrUpdateSchedule ==
    ScheduleEnsured =>
        IF config.dry_run THEN ScheduleMutations = {} ELSE OneScheduleMutation

C33_Witness ==
    /\ ScheduleEnsured
    /\ ~config.dry_run
    /\ "schedule" \in proc.pre
    /\ \E k \in ScheduleMutations : log[k].what = "update_schedule"

----------------------------------------------------------------------------
(* Claims about the configuration, checked under SpecDeploy.               *)

\* C34: the configuration is written once in a run of either deployer: the
\* constructor writes the account identifier and nothing else, and no step
\* of deploy() writes any field.
C34_ConfigurationWrittenAtInitOnly ==
    [][config' # config =>
          /\ orch.phase = "new"
          /\ config' = [config EXCEPT !.account_id = config'.account_id]]_vars

----------------------------------------------------------------------------
(* Claims about repeated role provisioning, checked under SpecProvision.   *)

\* The policy a role ensure operation attaches to the role it creates.
PolicyOf(op) == IF op = "ensure_lambda_role" THEN "pol_lambda" ELSE "pol_sched"

\* The registry the client's first invocation found.
FirstRegistry == IF hist = <<>> THEN proc.pre ELSE hist[1].pre

\* C35: outside dry-run, when ensure_lambda_role (ensure_scheduler_role)
\* has returned the handle of a role that did not exist before the client's
\* first invocation, the role exists with its execution policy (invoke
\* policy) attached, also when an earlier invocation failed after creating
\* the role.
C35_ReturnedRoleHasItsPolicy ==
    \A op \in {"ensure_lambda_role", "ensure_scheduler_role"} :
        (/\ RoleEnsureReturned(op)
         /\ ~config.dry_run
         /\ Ensured(op) \notin FirstRegistry) =>
            {Ensured(op), PolicyOf(op)} \subseteq remote.reg

----------------------------------------------------------------------------
(* Claims about the readiness waits, checked under SpecProvision.          *)

\* The step ends a readiness wait without an error.
WaitReturns == InWait /\ proc'.pc \notin WaitOps /\ ~WaitFails

\* C36: outside dry-run, a readiness wait returns normally only on a poll
\* that observed the ready state (State Active after a creation,
\* LastUpdateStatus Successful after an update): after any other
\* observation, a state value the loop does not know included, it does not
\* return normally.
C36_WaitReturnsOnlyWhenReady ==
    [][(WaitReturns /\ ~config.dry_run) =>
          remote'[IF proc.pc = "_wait_for_function_active" THEN "fn_state"
                  ELSE "fn_update"] = ReadyValue]_vars

\* C37: a readiness wait whose poll observed the state Failed is over: it
\* is not in its loop any more, about to sleep and to poll get_function
\* again.
C37_FailedEndsTheWait ==
    ~(/\ proc.pc \in WaitOps
      /\ ~config.dry_run
      /\ proc.seen = "Failed"
      /\ proc.polls < proc.max_polls)

----------------------------------------------------------------------------
(* Claims about the existence check of the gateway, checked under          *)
(* SpecGateway.                                                            *)

\* C38: outside dry-run, a resource_exists whose check request is answered
\* with a not-found error (NoSuchEntity, ResourceNotFoundException,
\* NotFoundException) makes that one request and returns False without
\* sleeping: the gateway does not retry the request.
C38_AbsentResourceCheckedOnce ==
    \A i \in DOMAIN hist :
        (/\ hist[i].op = "resource_exists"
         /\ ~lastCall.dry_run
         /\ lastCall.outs[1] \in NotFoundCodes) =>
            /\ hist[i].kind = "return"
            /\ ~hist[i].exists
            /\ lastCall.res.attempts = 1
            /\ lastCall.res.sleeps = <<>>

----------------------------------------------------------------------------
(* Termination of the readiness waits, checked under SpecProvisionFair.    *)

\* C39: a readiness wait with max_attempts = N makes at most N polls: every
\* step that leaves it in its loop used up one iteration, its count never
\* exceeds N, and a wait in progress eventually returns or raises, whatever
\* the remote answers.
C39_WaitTerminates ==
    /\ [](proc.pc \in WaitOps => proc.polls <= proc.max_polls)
    /\ [][(InWait /\ proc'.pc \in WaitOps) =>
            /\ proc'.pc = proc.pc
            /\ proc'.polls = proc.polls + 1
            /\ proc'.polls < proc.max_polls]_vars
    /\ (proc.pc \in WaitOps) ~> (proc.pc \notin WaitOps)

C39_Witness ==
    /\ proc.op \in WaitOps
    /\ proc.pc = "done"
    /\ ~config.dry_run
    /\ proc.polls = proc.max_polls
    /\ proc.max_polls = MaxPolls
    /\ proc.result.kind = "raise"
    /\ proc.result.err.code = "TimeoutError"

====
